---- MODULE Spec2Model ----
(***************************************************************************)
(* Flight-attendant pay calculator: the three calculateTripPay             *)
(* implementations of the repository (script.js, the monolithic script in  *)
(* part_003, and trips.js in part_003), modelled over JavaScript values.   *)
(*                                                                         *)
(* JavaScript numbers are modelled as exact rationals plus NaN; binary     *)
(* floating-point rounding is abstracted away.  JavaScript strings are     *)
(* sequences of one-character strings so that parseInt / parseFloat can be *)
(* modelled by what they do to the text.                                   *)
(***************************************************************************)
EXTENDS Integers, Sequences, FiniteSets, TLC

(***************************************************************************)
(* JavaScript numbers                                                      *)
(***************************************************************************)
Abs(x) == IF x < 0 THEN -x ELSE x

RECURSIVE GCD(_, _)
GCD(a, b) == IF b = 0 THEN a ELSE GCD(b, a % b)

NaN == [nan |-> TRUE, n |-> 0, d |-> 1]

\* n/d in lowest terms, d > 0
Rat(n, d) ==
    LET g == GCD(Abs(n), d)
    IN  [nan |-> FALSE, n |-> n \div g, d |-> d \div g]

Int2Num(i) == [nan |-> FALSE, n |-> i, d |-> 1]

Zero == Int2Num(0)

isNaN(x) == x.nan

Add(x, y) ==
    IF x.nan \/ y.nan THEN NaN
    ELSE LET g == GCD(x.d, y.d)
         IN  Rat(x.n * (y.d \div g) + y.n * (x.d \div g), (x.d \div g) * y.d)

Neg(x) == IF x.nan THEN NaN ELSE [nan |-> FALSE, n |-> -x.n, d |-> x.d]

Sub(x, y) == Add(x, Neg(y))

Mul(x, y) ==
    IF x.nan \/ y.nan THEN NaN
    ELSE LET g1 == GCD(Abs(x.n), y.d)
             g2 == GCD(Abs(y.n), x.d)
         IN  Rat((x.n \div g1) * (y.n \div g2), (x.d \div g2) * (y.d \div g1))

\* x / y for y # 0 (every division in the modelled code is by a literal or
\* is guarded by a "> 0" test)
Div(x, y) ==
    IF x.nan \/ y.nan THEN NaN
    ELSE Mul(x, IF y.n < 0 THEN [nan |-> FALSE, n |-> -y.d, d |-> -y.n]
                ELSE [nan |-> FALSE, n |-> y.d, d |-> y.n])

\* JavaScript relational operators: any comparison with NaN is false
Gt(x, y) == ~x.nan /\ ~y.nan /\ Sub(x, y).n > 0
Le(x, y) == ~x.nan /\ ~y.nan /\ Sub(x, y).n <= 0

\* Math.max / Math.min (NaN is contagious)
MathMax(x, y) == IF x.nan \/ y.nan THEN NaN ELSE IF Gt(y, x) THEN y ELSE x
MathMin(x, y) == IF x.nan \/ y.nan THEN NaN ELSE IF Gt(x, y) THEN y ELSE x

\* "x || 0" on a number: NaN and 0 are falsy
OrNum(x, dflt) == IF x.nan \/ x.n = 0 THEN dflt ELSE x

(***************************************************************************)
(* JavaScript values held in a trip record's fields                        *)
(***************************************************************************)
Undefined == [k |-> "undef", s |-> <<>>, b |-> FALSE]
Bool(v)   == [k |-> "bool",  s |-> <<>>, b |-> v]
Str(cs)   == [k |-> "str",   s |-> cs,   b |-> FALSE]

\* ToBoolean
Truthy(v) ==
    CASE v.k = "bool" -> v.b
      [] v.k = "str"  -> v.s # <<>>
      [] OTHER        -> FALSE

\* a toggle tested for truthiness where the source compares with a literal
TruthyForLiteral(v, cs) == Truthy(v)

\* v === 'literal'
StrictEqStr(v, cs) == v.k = "str" /\ v.s = cs

\* v === true
StrictEqTrue(v) == v.k = "bool" /\ v.b

\* ToStringJS, as parseInt / parseFloat apply it to their argument
ToStringJS(v) ==
    CASE v.k = "str"   -> v.s
      [] v.k = "bool"  -> IF v.b THEN <<"t", "r", "u", "e">>
                                 ELSE <<"f", "a", "l", "s", "e">>
      [] OTHER         -> <<"u", "n", "d", "e", "f", "i", "n", "e", "d">>

DigitChars == <<"0", "1", "2", "3", "4", "5", "6", "7", "8", "9">>

IsDigit(c) == \E i \in 1..10 : DigitChars[i] = c

DigitVal(c) == (CHOOSE i \in 1..10 : DigitChars[i] = c) - 1

\* number of leading white-space characters of cs from index i on
RECURSIVE SpaceRun(_, _)
SpaceRun(cs, i) ==
    IF i > Len(cs) \/ cs[i] # " " THEN 0 ELSE 1 + SpaceRun(cs, i + 1)

\* number of consecutive digits of cs from index i on
RECURSIVE DigitRun(_, _)
DigitRun(cs, i) ==
    IF i > Len(cs) \/ ~IsDigit(cs[i]) THEN 0 ELSE 1 + DigitRun(cs, i + 1)

\* value of the n digits of cs that start at index i
RECURSIVE DigitsValue(_, _, _)
DigitsValue(cs, i, n) ==
    IF n = 0 THEN 0
    ELSE DigitsValue(cs, i, n - 1) * 10 + DigitVal(cs[i + n - 1])

RECURSIVE Pow10(_)
Pow10(n) == IF n = 0 THEN 1 ELSE 10 * Pow10(n - 1)

\* index of the first character of cs after its leading white space
AfterSpace(cs) == 1 + SpaceRun(cs, 1)

\* cs has a minus sign at index i0
HasMinus(cs, i0) == i0 <= Len(cs) /\ cs[i0] = "-"

\* index after the optional sign at index i0
AfterSign(cs, i0) ==
    IF i0 <= Len(cs) /\ cs[i0] \in {"-", "+"} THEN i0 + 1 ELSE i0

\* the integer whose n digits start at index i1 of cs; NaN when n = 0
IntegerAt(cs, i1, n, neg) ==
    IF n = 0 THEN NaN
    ELSE Int2Num((IF neg THEN -1 ELSE 1) * DigitsValue(cs, i1, n))

\* parseInt(v) / parseInt(v, 10): optional white space, optional sign, then
\* the longest run of decimal digits; NaN when there is no digit
ParseIntFrom(cs, i0) ==
    IntegerAt(cs, AfterSign(cs, i0), DigitRun(cs, AfterSign(cs, i0)),
              HasMinus(cs, i0))

parseInt(v) == ParseIntFrom(ToStringJS(v), AfterSpace(ToStringJS(v)))

\* number of fraction digits after the n integer digits that start at i1
FractionRun(cs, i1, n) ==
    IF i1 + n <= Len(cs) /\ cs[i1 + n] = "."
    THEN DigitRun(cs, i1 + n + 1) ELSE 0

\* the decimal with n integer digits from index i1 and f fraction digits
\* after the point; NaN when neither part has a digit
DecimalAt(cs, i1, n, f, neg) ==
    IF n = 0 /\ f = 0 THEN NaN
    ELSE Rat((IF neg THEN -1 ELSE 1)
                 * (DigitsValue(cs, i1, n) * Pow10(f)
                    + DigitsValue(cs, i1 + n + 1, f)),
             Pow10(f))

DecimalFrom(cs, i1, n, neg) ==
    DecimalAt(cs, i1, n, FractionRun(cs, i1, n), neg)

\* parseFloat(v): optional white space, optional sign, digits, optionally a
\* point and more digits; NaN when neither part has a digit
ParseFloatFrom(cs, i0) ==
    DecimalFrom(cs, AfterSign(cs, i0), DigitRun(cs, AfterSign(cs, i0)),
                HasMinus(cs, i0))

parseFloat(v) == ParseFloatFrom(ToStringJS(v), AfterSpace(ToStringJS(v)))

(***************************************************************************)
(* String literals of the source                                           *)
(***************************************************************************)
Yes      == <<"Y", "e", "s">>
No       == <<"N", "o">>
Narrow1  == <<"N", "a", "r", "r", "o", "w", "1">>
Narrow2  == <<"N", "a", "r", "r", "o", "w", "2">>
Wide     == <<"W", "i", "d", "e">>

\* the decimal numeral of a natural number
RECURSIVE Dec(_)
Dec(n) ==
    IF n < 10 THEN <<DigitChars[n + 1]>>
    ELSE Dec(n \div 10) \o <<DigitChars[(n % 10) + 1]>>

\* "Year 1" .. "Year 12"
Year(n) == <<"Y", "e", "a", "r", " ">> \o Dec(n)

Year13Plus == Year(13) \o <<"+">>

Year1 == Year(1)

\* a dollar amount written with two decimals in the source, given in cents
Money(c) == Rat(c, 100)

(***************************************************************************)
(* Rate tables                                                             *)
(***************************************************************************)
BaseRateCents ==
    <<2888, 3064, 3259, 3471, 3825, 4330, 4841, 4996, 5134, 5326, 5473,
      5733, 6711>>

FlagRateCents ==
    <<4332, 4596, 4889, 5207, 5738, 6495, 7262, 7494, 7701, 7989, 8210,
      8600, 10067>>

YearKeys == {Year(n) : n \in 1..12} \cup {Year13Plus}

YearIndex(key) == IF key = Year13Plus THEN 13
                  ELSE CHOOSE n \in 1..12 : Year(n) = key

\* PAY_RATES (script.js, config.js) and masterPayData (monolith): the same
\* table three times in the source
PAY_RATES ==
    [key \in YearKeys |->
        [baseRate |-> Money(BaseRateCents[YearIndex(key)]),
         flagRate |-> Money(FlagRateCents[YearIndex(key)])]]

masterPayData == PAY_RATES

DOMESTIC_PER_DIEM      == Money(240)
INTERNATIONAL_PER_DIEM == Money(290)

\* config.js
PURSER_RATES ==
    [key \in {Narrow1, Narrow2, Wide} |->
        CASE key = Narrow1 -> [usRate |-> Money(250), nonUsRate |-> Money(300)]
          [] key = Narrow2 -> [usRate |-> Money(300), nonUsRate |-> Money(350)]
          [] key = Wide    -> [usRate |-> Money(400), nonUsRate |-> Money(450)]]

GALLEY_RATE   == Money(250)
LANGUAGE_RATE == Money(300)
HOLIDAY_RATE  == Rat(3, 2)
FLAG_RATES_white == Rat(5, 4)

FLAG_RATES_purple ==
    [key \in {<<"1", ".", "5">>, <<"2">>, <<"2", ".", "5">>, <<"3">>} |->
        parseFloat(Str(key))]

\* the purser rate literals of script.js and of the monolith's switch
PurserRatesInline ==
    [key \in {Narrow1, Narrow2, Wide} |->
        CASE key = Narrow1 -> <<Int2Num(1), Int2Num(2)>>
          [] key = Narrow2 -> <<Int2Num(2), Int2Num(3)>>
          [] key = Wide    -> <<Int2Num(3), Int2Num(4)>>]

(***************************************************************************)
(* Trip records.  The argument of calculateTripPay is an object, null,     *)
(* undefined or a primitive; reading a property of a primitive yields      *)
(* undefined, reading a property of null or undefined throws a TypeError.  *)
(***************************************************************************)
FieldNames ==
    {"payYear", "tripLength",
     "creditedHoursHours", "creditedHoursMinutes", "tafbHours", "tafbMinutes",
     "whiteFlag", "purpleFlag", "purpleFlagPremium",
     "galleyPay", "galleyHoursHours", "galleyHoursMinutes",
     "purserPay", "aircraftType",
     "purserUSHours", "purserNonUSHours", "purserUsHours", "purserNonUsHours",
     "intlOverride", "intlPayOverride", "languagePay",
     "holidayPay", "holidayHours",
     "retirementPercentage", "taxRate"}

NoFields == [f \in FieldNames |-> Undefined]

Obj(fields) == [k |-> "obj",   f |-> fields]
NullArg     == [k |-> "null",  f |-> NoFields]
UndefArg    == [k |-> "undef", f |-> NoFields]
PrimArg     == [k |-> "prim",  f |-> NoFields]

\* property access on null / undefined
ThrowsOnAccess(tripData) == tripData.k \in {"null", "undef"}

Returned(p) == [threw |-> FALSE, pay |-> p]
Thrown      == [threw |-> TRUE,  pay |-> <<>>]

(***************************************************************************)
(* script.js                                                               *)
(***************************************************************************)
parseHM(hours, minutes) ==
    LET h == OrNum(parseInt(hours), Zero)
        m == OrNum(parseInt(minutes), Zero)
    IN  Add(h, Div(m, Int2Num(60)))

ScriptZeroPay ==
    [baseRate |-> Zero, effectiveRate |-> Zero, basePay |-> Zero,
     galleyPay |-> Zero, purserPay |-> Zero, intlOverridePay |-> Zero,
     languagePay |-> Zero, perDiem |-> Zero, holidayPay |-> Zero,
     totalGrossPay |-> Zero, netPayEstimate |-> Zero, hourlyValue |-> Zero,
     perDayValue |-> Zero]

ScriptPayYear(t) == IF Truthy(t.payYear) THEN t.payYear ELSE Str(Year1)

ScriptPayData(t) ==
    LET key == ToStringJS(ScriptPayYear(t))
    IN  IF key \in DOMAIN PAY_RATES THEN PAY_RATES[key] ELSE PAY_RATES[Year1]

ScriptTripLength(t) == OrNum(parseInt(t.tripLength), Int2Num(1))

ScriptFlagMultiplier(t) ==
    Mul(IF Truthy(t.whiteFlag) THEN Rat(3, 2) ELSE Int2Num(1),
        IF Truthy(t.purpleFlag)
        THEN OrNum(parseFloat(t.purpleFlagPremium), Rat(3, 2))
        ELSE Int2Num(1))

ScriptPurserPay(t) ==
    IF StrictEqStr(t.purserPay, Yes)
    THEN LET purserUS    == OrNum(parseFloat(t.purserUSHours), Zero)
             purserNonUS == OrNum(parseFloat(t.purserNonUSHours), Zero)
             key         == ToStringJS(t.aircraftType)
             rates       == IF key \in DOMAIN PurserRatesInline
                            THEN PurserRatesInline[key]
                            ELSE PurserRatesInline[Narrow1]
         IN  Add(Mul(purserUS, rates[1]), Mul(purserNonUS, rates[2]))
    ELSE Zero

ScriptNetPay(t, totalGrossPay) ==
    LET retirementDeduction ==
            Mul(totalGrossPay,
                Div(parseFloat(t.retirementPercentage), Int2Num(100)))
    IN  Mul(Sub(totalGrossPay, retirementDeduction),
            Sub(Int2Num(1), Div(parseFloat(t.taxRate), Int2Num(100))))

ScriptPerDayValue(tripLength, totalGrossPay) ==
    IF Gt(tripLength, Zero) THEN Div(totalGrossPay, tripLength) ELSE Zero

\* the parsed hour inputs
ScriptHours(t) ==
    [creditedHours |-> parseHM(t.creditedHoursHours, t.creditedHoursMinutes),
     dutyHours     |-> parseHM(t.tafbHours, t.tafbMinutes),
     tripLength    |-> ScriptTripLength(t)]

\* baseRate and effectiveRate
ScriptRates(t) ==
    [baseRate      |-> ScriptPayData(t).baseRate,
     effectiveRate |-> Mul(ScriptPayData(t).baseRate, ScriptFlagMultiplier(t))]

\* the seven pay components, from the hours h and the rates r
ScriptComponents(t, h, r) ==
    [basePay   |-> Mul(h.creditedHours, r.effectiveRate),
     galleyPay |-> IF StrictEqStr(t.galleyPay, Yes)
                   THEN parseHM(t.galleyHoursHours, t.galleyHoursMinutes)
                   ELSE Zero,
     purserPay |-> ScriptPurserPay(t),
     perDiem   |-> Mul(h.dutyHours,
                       IF StrictEqStr(t.intlOverride, Yes)
                       THEN INTERNATIONAL_PER_DIEM
                       ELSE DOMESTIC_PER_DIEM),
     languagePay |-> IF StrictEqStr(t.languagePay, Yes)
                     THEN Mul(h.creditedHours, Rat(5, 2)) ELSE Zero,
     intlOverridePay |-> IF StrictEqStr(t.intlPayOverride, Yes)
                         THEN Mul(h.creditedHours, Int2Num(2)) ELSE Zero,
     holidayPay |-> IF StrictEqStr(t.holidayPay, Yes) /\ Gt(h.dutyHours, Zero)
                    THEN Mul(Div(Mul(r.effectiveRate, h.creditedHours),
                                 h.dutyHours),
                             OrNum(parseFloat(t.holidayHours), Zero))
                    ELSE Zero]

ScriptTotalGrossPay(c) ==
    Add(Add(Add(Add(Add(Add(c.basePay, c.galleyPay), c.purserPay), c.perDiem),
                c.languagePay), c.intlOverridePay), c.holidayPay)

\* the returned object
ScriptResult(t, h, r, c, totalGrossPay) ==
    [baseRate |-> r.baseRate, effectiveRate |-> r.effectiveRate,
     basePay |-> c.basePay, galleyPay |-> c.galleyPay,
     purserPay |-> c.purserPay, intlOverridePay |-> c.intlOverridePay,
     languagePay |-> c.languagePay, perDiem |-> c.perDiem,
     holidayPay |-> c.holidayPay, totalGrossPay |-> totalGrossPay,
     netPayEstimate |-> ScriptNetPay(t, totalGrossPay),
     hourlyValue |-> IF Gt(h.creditedHours, Zero)
                     THEN Div(totalGrossPay, h.creditedHours) ELSE Zero,
     perDayValue |-> ScriptPerDayValue(h.tripLength, totalGrossPay)]

ScriptTotals(t, h, r, c) == ScriptResult(t, h, r, c, ScriptTotalGrossPay(c))

ScriptPay(t, h, r) == ScriptTotals(t, h, r, ScriptComponents(t, h, r))

calculateTripPayScript(tripData) ==
    IF ThrowsOnAccess(tripData) THEN Returned(ScriptZeroPay)
    ELSE Returned(ScriptPay(tripData.f, ScriptHours(tripData.f),
                            ScriptRates(tripData.f)))

(***************************************************************************)
(* The monolithic script of part_003                                       *)
(***************************************************************************)
createDefaultCalculation ==
    [baseRate |-> Zero, flagRate |-> Zero, effectiveRate |-> Zero,
     basePay |-> Zero, galleyPay |-> Zero, purserPay |-> Zero,
     intlOverridePay |-> Zero, languagePay |-> Zero, perDiem |-> Zero,
     holidayPay |-> Zero, totalGrossPay |-> Zero, netPayEstimate |-> Zero,
     hourlyValue |-> Zero, perDayValue |-> Zero]

MonoFlagEnabled(v) == StrictEqTrue(v) \/ StrictEqStr(v, Yes)

MonoFlagPremiumMultiplier(t) ==
    LET purpleFlagPremium == OrNum(parseFloat(t.purpleFlagPremium), Rat(3, 2))
        white == IF MonoFlagEnabled(t.whiteFlag) THEN Rat(3, 2) ELSE Int2Num(1)
    IN  IF MonoFlagEnabled(t.purpleFlag) THEN Mul(white, purpleFlagPremium)
        ELSE white

\* hours and minutes read with a default of one hour instead of none
HMDefaultingToOne(hours, minutes) ==
    Add(OrNum(parseInt(hours), Int2Num(1)),
        Div(OrNum(parseInt(minutes), Zero), Int2Num(60)))

MonoHM(hours, minutes) ==
    Add(OrNum(parseInt(hours), Zero),
        Div(OrNum(parseInt(minutes), Zero), Int2Num(60)))

MonoTripLength(t) == OrNum(parseInt(t.tripLength), Int2Num(1))

MonoPercentage(v) ==
    MathMax(Zero, MathMin(Int2Num(100), OrNum(parseFloat(v), Zero)))

MonoPurserPay(t) ==
    LET hasPurserPay     == StrictEqStr(t.purserPay, Yes)
        purserUSHours    == IF hasPurserPay
                            THEN OrNum(parseFloat(t.purserUSHours), Zero)
                            ELSE Zero
        purserNonUSHours == IF hasPurserPay
                            THEN OrNum(parseFloat(t.purserNonUSHours), Zero)
                            ELSE Zero
        aircraftType     == IF Truthy(t.aircraftType) THEN t.aircraftType
                            ELSE Str(Narrow1)
        rates == IF aircraftType.k = "str"
                    /\ aircraftType.s \in DOMAIN PurserRatesInline
                 THEN PurserRatesInline[aircraftType.s]
                 ELSE PurserRatesInline[Narrow1]
    IN  IF hasPurserPay
        THEN Add(Mul(purserUSHours, rates[1]), Mul(purserNonUSHours, rates[2]))
        ELSE Zero

MonoNetPay(t, totalGrossPay) ==
    LET retirementPercentage == MonoPercentage(t.retirementPercentage)
        taxRate              == MonoPercentage(t.taxRate)
        retirementDeduction  ==
            Mul(totalGrossPay, Div(retirementPercentage, Int2Num(100)))
        netBeforeTax         == Sub(totalGrossPay, retirementDeduction)
    IN  Mul(netBeforeTax, Sub(Int2Num(1), Div(taxRate, Int2Num(100))))

MonoPerDayValue(tripLength, totalGrossPay) ==
    IF Gt(tripLength, Zero) THEN Div(totalGrossPay, tripLength) ELSE Zero

\* the pay year whose rates the monolith uses; FALSE stands for the
\* "not found in master data" branch
MonoHasPayYear(t) ==
    ToStringJS(IF Truthy(t.payYear) THEN t.payYear ELSE Str(Year1))
        \in DOMAIN masterPayData

\* the parsed inputs
MonoInputs(t) ==
    [payYear       |-> ToStringJS(IF Truthy(t.payYear) THEN t.payYear
                                  ELSE Str(Year1)),
     creditedHours |-> MonoHM(t.creditedHoursHours, t.creditedHoursMinutes),
     dutyHours     |-> MonoHM(t.tafbHours, t.tafbMinutes),
     tripLength    |-> MonoTripLength(t),
     hasGalleyPay  |-> StrictEqStr(t.galleyPay, Yes),
     hasHolidayPay |-> StrictEqStr(t.holidayPay, Yes),
     galleyHours   |-> IF StrictEqStr(t.galleyPay, Yes)
                       THEN MonoHM(t.galleyHoursHours, t.galleyHoursMinutes)
                       ELSE Zero,
     holidayHours  |-> IF StrictEqStr(t.holidayPay, Yes)
                       THEN OrNum(parseFloat(t.holidayHours), Zero)
                       ELSE Zero]

\* baseRate, effectiveRate and perDiemRate, from the inputs in
MonoRates(t, in) ==
    [baseRate      |-> masterPayData[in.payYear].baseRate,
     effectiveRate |-> Mul(masterPayData[in.payYear].baseRate,
                           MonoFlagPremiumMultiplier(t)),
     perDiemRate   |-> IF StrictEqStr(t.intlOverride, Yes)
                       THEN INTERNATIONAL_PER_DIEM ELSE DOMESTIC_PER_DIEM]

\* the seven pay components
MonoComponents(t, in, r) ==
    [basePay   |-> Mul(in.creditedHours, r.effectiveRate),
     galleyPay |-> IF in.hasGalleyPay THEN Mul(in.galleyHours, Int2Num(1))
                   ELSE Zero,
     purserPay |-> MonoPurserPay(t),
     intlOverridePay |-> IF StrictEqStr(t.intlPayOverride, Yes)
                         THEN Mul(in.creditedHours, Int2Num(2)) ELSE Zero,
     languagePay |-> IF StrictEqStr(t.languagePay, Yes)
                     THEN Mul(in.creditedHours, Rat(5, 2)) ELSE Zero,
     perDiem    |-> Mul(in.dutyHours, r.perDiemRate),
     holidayPay |-> IF in.hasHolidayPay /\ Gt(in.dutyHours, Zero)
                    THEN Mul(Div(Mul(r.effectiveRate, in.creditedHours),
                                 in.dutyHours), in.holidayHours)
                    ELSE Zero]

MonoTotalGrossPay(c) ==
    Add(Add(Add(Add(Add(Add(c.basePay, c.galleyPay), c.purserPay),
                    c.intlOverridePay), c.languagePay), c.perDiem),
        c.holidayPay)

\* the returned object
MonoResult(t, in, r, c, totalGrossPay) ==
    [baseRate |-> r.baseRate, flagRate |-> Zero,
     effectiveRate |-> r.effectiveRate,
     basePay |-> c.basePay, galleyPay |-> c.galleyPay,
     purserPay |-> c.purserPay, intlOverridePay |-> c.intlOverridePay,
     languagePay |-> c.languagePay, perDiem |-> c.perDiem,
     holidayPay |-> c.holidayPay, totalGrossPay |-> totalGrossPay,
     netPayEstimate |-> MonoNetPay(t, totalGrossPay),
     hourlyValue |-> IF Gt(in.creditedHours, Zero)
                     THEN Div(totalGrossPay, in.creditedHours) ELSE Zero,
     perDayValue |-> MonoPerDayValue(in.tripLength, totalGrossPay)]

MonoTotals(t, in, r, c) == MonoResult(t, in, r, c, MonoTotalGrossPay(c))

MonoPay(t, in, r) == MonoTotals(t, in, r, MonoComponents(t, in, r))

MonoPayFrom(t, in) == MonoPay(t, in, MonoRates(t, in))

calculateTripPayMono(tripData) ==
    IF tripData.k # "obj" THEN Returned(createDefaultCalculation)
    ELSE IF ~MonoHasPayYear(tripData.f) THEN Returned(createDefaultCalculation)
    ELSE Returned(MonoPayFrom(tripData.f, MonoInputs(tripData.f)))

(***************************************************************************)
(* trips.js (with utils.js formatCurrency and config.js rates)             *)
(***************************************************************************)
\* Number.prototype.toFixed(2), as the number of cents: the nearest
\* hundredth, halves away from zero
ToFixed2(x) ==
    LET mag   == (Abs(x.n) * 200 + x.d) \div (2 * x.d)
    IN  IF x.n < 0 THEN -mag ELSE mag

\* formatCurrency(value): '$' + num.toFixed(2), '$0.00' for NaN
formatCurrency(x) ==
    [dash |-> FALSE, cents |-> IF x.nan THEN 0 ELSE ToFixed2(x), unit |-> ""]

\* the '--' placeholder of a component whose toggle is off
Dash == [dash |-> TRUE, cents |-> 0, unit |-> ""]

PerUnit(x, u) == [formatCurrency(x) EXCEPT !.unit = u]

TripsHM(hours, minutes) ==
    Add(OrNum(parseInt(hours), Zero),
        Div(OrNum(parseInt(minutes), Zero), Int2Num(60)))

TripsBaseRate(t) ==
    LET key == ToStringJS(IF Truthy(t.payYear) THEN t.payYear ELSE Str(Year1))
    IN  IF key \in DOMAIN PAY_RATES THEN PAY_RATES[key].baseRate ELSE Zero

TripsFlagRate(t) ==
    LET key == ToStringJS(IF Truthy(t.payYear) THEN t.payYear ELSE Str(Year1))
    IN  IF key \in DOMAIN PAY_RATES THEN PAY_RATES[key].flagRate ELSE Zero

TripsPurpleFlagPay(t, creditedHours, baseRate) ==
    IF /\ Truthy(t.purpleFlag)
       /\ Truthy(t.purpleFlagPremium)
       /\ ToStringJS(t.purpleFlagPremium) \in DOMAIN FLAG_RATES_purple
    THEN Mul(Mul(creditedHours, baseRate),
             Sub(FLAG_RATES_purple[ToStringJS(t.purpleFlagPremium)],
                 Int2Num(1)))
    ELSE Zero

TripsPurserPay(t) ==
    IF Truthy(t.purserPay) /\ Truthy(t.aircraftType)
    THEN LET usHours    == OrNum(parseFloat(t.purserUsHours), Zero)
             nonUsHours == OrNum(parseFloat(t.purserNonUsHours), Zero)
             key        == ToStringJS(t.aircraftType)
             purserRates == IF key \in DOMAIN PURSER_RATES
                            THEN PURSER_RATES[key]
                            ELSE [usRate |-> Zero, nonUsRate |-> Zero]
         IN  Add(Mul(usHours, purserRates.usRate),
                 Mul(nonUsHours, purserRates.nonUsRate))
    ELSE Zero

TripsHolidayPay(t, baseRate) ==
    LET holidayHours == OrNum(parseFloat(t.holidayHours), Zero)
    IN  IF Truthy(t.holidayPay)
        THEN Mul(Mul(holidayHours, baseRate), Sub(HOLIDAY_RATE, Int2Num(1)))
        ELSE Zero

TripsNetPay(t, grossPay) ==
    LET retirementPct == OrNum(parseFloat(t.retirementPercentage), Zero)
        taxPct        == OrNum(parseFloat(t.taxRate), Zero)
        afterRet      == IF Gt(retirementPct, Zero)
                         THEN Sub(grossPay,
                                  Mul(grossPay, Div(retirementPct, Int2Num(100))))
                         ELSE grossPay
    IN  IF Gt(taxPct, Zero)
        THEN Sub(afterRet, Mul(grossPay, Div(taxPct, Int2Num(100))))
        ELSE afterRet

\* the rates and the parsed hour inputs
TripsInputs(t) ==
    [baseRate      |-> TripsBaseRate(t),
     flagRate      |-> TripsFlagRate(t),
     creditedHours |-> TripsHM(t.creditedHoursHours, t.creditedHoursMinutes),
     tafbHours     |-> TripsHM(t.tafbHours, t.tafbMinutes),
     tripLength    |-> OrNum(parseInt(t.tripLength), Int2Num(1)),
     galleyHours   |-> TripsHM(t.galleyHoursHours, t.galleyHoursMinutes)]

\* the pay components, from the inputs in
TripsComponents(t, in) ==
    [whiteFlagPay  |-> IF Truthy(t.whiteFlag)
                       THEN Mul(Mul(in.creditedHours, in.baseRate),
                                Sub(FLAG_RATES_white, Int2Num(1)))
                       ELSE Zero,
     purpleFlagPay |-> TripsPurpleFlagPay(t, in.creditedHours, in.baseRate),
     galleyPay     |-> IF Truthy(t.galleyPay)
                       THEN Mul(in.galleyHours, GALLEY_RATE) ELSE Zero,
     purserPay     |-> TripsPurserPay(t),
     languagePay   |-> IF Truthy(t.languagePay)
                       THEN Mul(in.creditedHours, LANGUAGE_RATE) ELSE Zero,
     holidayPay    |-> TripsHolidayPay(t, in.baseRate),
     intlOverridePay |-> IF Truthy(t.intlPayOverride)
                         THEN Mul(in.creditedHours,
                                  Sub(in.flagRate, in.baseRate))
                         ELSE Zero,
     perDiem       |-> Mul(in.tafbHours,
                           IF Truthy(t.intlOverride)
                           THEN INTERNATIONAL_PER_DIEM
                           ELSE DOMESTIC_PER_DIEM),
     basePay       |-> Mul(in.creditedHours, in.baseRate)]

TripsGrossPay(c) ==
    Add(Add(Add(Add(Add(Add(Add(Add(c.basePay, c.perDiem), c.whiteFlagPay),
                            c.purpleFlagPay), c.galleyPay), c.purserPay),
                c.languagePay), c.holidayPay), c.intlOverridePay)

\* a component's display: its amount when its toggle is on, else '--'
Shown(flag, x) == IF Truthy(flag) THEN formatCurrency(x) ELSE Dash

\* the returned object
TripsResult(t, in, c, grossPay) ==
    [basePay |-> formatCurrency(c.basePay),
     perDiem |-> formatCurrency(c.perDiem),
     whiteFlagPay |-> Shown(t.whiteFlag, c.whiteFlagPay),
     purpleFlagPay |-> Shown(t.purpleFlag, c.purpleFlagPay),
     galleyPay |-> Shown(t.galleyPay, c.galleyPay),
     purserPay |-> Shown(t.purserPay, c.purserPay),
     languagePay |-> Shown(t.languagePay, c.languagePay),
     holidayPay |-> Shown(t.holidayPay, c.holidayPay),
     intlOverridePay |-> Shown(t.intlPayOverride, c.intlOverridePay),
     grossPay |-> formatCurrency(grossPay),
     netPayEstimate |-> formatCurrency(TripsNetPay(t, grossPay)),
     hourlyValue |-> PerUnit(IF Gt(in.creditedHours, Zero)
                             THEN Div(grossPay, in.creditedHours) ELSE Zero,
                             "/hr"),
     dailyValue |-> PerUnit(IF Gt(in.tripLength, Zero)
                            THEN Div(grossPay, in.tripLength) ELSE Zero,
                            "/day")]

TripsTotals(t, in, c) == TripsResult(t, in, c, TripsGrossPay(c))

TripsPay(t, in) == TripsTotals(t, in, TripsComponents(t, in))

calculateTripPayTrips(trip) ==
    IF ThrowsOnAccess(trip) THEN Thrown
    ELSE Returned(TripsPay(trip.f, TripsInputs(trip.f)))

(***************************************************************************)
(* The three applications and what their form collaborators store          *)
(***************************************************************************)
Apps == {"script", "mono", "modular"}

Toggles ==
    {"whiteFlag", "purpleFlag", "galleyPay", "purserPay", "intlOverride",
     "intlPayOverride", "languagePay", "holidayPay"}

\* getFormData of script.js stores 'Yes' / 'No' for every toggle; the
\* monolith's submit handler stores the checkbox boolean for the two flag
\* toggles and 'Yes' / 'No' for the others; getFormData of utils.js stores
\* the checkbox boolean for every toggle
FormToggle(a, field, checked) ==
    IF a = "modular" \/ (a = "mono" /\ field \in {"whiteFlag", "purpleFlag"})
    THEN Bool(checked)
    ELSE Str(IF checked THEN Yes ELSE No)

\* the property names under which the purser hours are stored
PurserUSField(a)    == IF a = "modular" THEN "purserUsHours" ELSE "purserUSHours"
PurserNonUSField(a) == IF a = "modular" THEN "purserNonUsHours"
                       ELSE "purserNonUSHours"

\* the fields a form submission of application a stores
FormFields(a) ==
    (FieldNames \ {"purserUSHours", "purserNonUSHours", "purserUsHours",
                   "purserNonUsHours"})
        \cup {PurserUSField(a), PurserNonUSField(a)}

Txt(n)     == Str(Dec(n))
Empty      == Str(<<>>)
Txt1_5     == Str(<<"1", ".", "5">>)
Year99     == Str(Year(99))
Jumbo      == Str(<<"J", "u", "m", "b", "o">>)
Gold       == Str(<<"g", "o", "l", "d">>)

\* Scenario A of the specification: Year 1, 10h00 credited, 12h00 away
\* from base, every toggle off
BaseA(a) ==
    [f \in FieldNames |->
        CASE f \notin FormFields(a)       -> Undefined
          [] f \in Toggles                -> FormToggle(a, f, FALSE)
          [] f = "payYear"                -> Str(Year1)
          [] f = "tripLength"             -> Txt(1)
          [] f = "creditedHoursHours"     -> Txt(10)
          [] f = "creditedHoursMinutes"   -> Txt(0)
          [] f = "tafbHours"              -> Txt(12)
          [] f = "tafbMinutes"            -> Txt(0)
          [] f = "purpleFlagPremium"      -> Txt1_5
          [] f = "aircraftType"           -> Str(Narrow1)
          [] f = "holidayHours"           -> Txt(4)
          [] f = "retirementPercentage"   -> Txt(0)
          [] f = "taxRate"                -> Txt(0)
          [] OTHER                        -> Empty]

\* a trip with every toggle on
BaseFull(a) ==
    [f \in FieldNames |->
        CASE f \notin FormFields(a)       -> Undefined
          [] f \in Toggles                -> FormToggle(a, f, TRUE)
          [] f = "payYear"                -> Str(Year(2))
          [] f = "tripLength"             -> Txt(3)
          [] f = "creditedHoursHours"     -> Txt(10)
          [] f = "creditedHoursMinutes"   -> Txt(30)
          [] f = "tafbHours"              -> Txt(20)
          [] f = "tafbMinutes"            -> Txt(0)
          [] f = "purpleFlagPremium"      -> Txt(2)
          [] f = "galleyHoursHours"       -> Txt(1)
          [] f = "galleyHoursMinutes"     -> Txt(30)
          [] f = "aircraftType"           -> Str(Wide)
          [] f = "holidayHours"           -> Txt(4)
          [] f = "retirementPercentage"   -> Txt(10)
          [] f = "taxRate"                -> Txt(20)
          [] f \in {"purserUSHours", "purserUsHours"}       -> Txt(2)
          [] f \in {"purserNonUSHours", "purserNonUsHours"} -> Txt(1)
          [] OTHER                        -> Empty]

Bases == {"A", "Full"}

BaseRecord(a, b) == IF b = "A" THEN BaseA(a) ELSE BaseFull(a)

\* the values a stored field is given in the model
FieldValues(a, f) ==
    CASE f \in Toggles              -> {FormToggle(a, f, TRUE),
                                        FormToggle(a, f, FALSE)}
      [] f = "payYear"              -> {Str(Year1), Str(Year(2)), Year99,
                                        Undefined}
      [] f = "tripLength"           -> {Txt(1), Txt(3), Txt(0), Undefined}
      [] f = "creditedHoursHours"   -> {Txt(10), Txt(0), Empty}
      [] f = "creditedHoursMinutes" -> {Txt(0), Txt(30), Txt(75)}
      [] f = "tafbHours"            -> {Txt(12), Txt(20), Txt(10), Txt(0)}
      [] f = "tafbMinutes"          -> {Txt(0), Txt(30)}
      [] f = "purpleFlagPremium"    -> {Txt1_5, Txt(2), Gold}
      [] f = "galleyHoursHours"     -> {Empty, Txt(1)}
      [] f = "galleyHoursMinutes"   -> {Empty, Txt(30)}
      [] f = "aircraftType"         -> {Str(Narrow1), Str(Wide), Jumbo,
                                        Undefined}
      [] f = "holidayHours"         -> {Txt(4), Empty}
      [] f = "retirementPercentage" -> {Txt(0), Txt(10), Txt(150), Empty,
                                        Undefined}
      [] f = "taxRate"              -> {Txt(0), Txt(20), Empty, Undefined}
      [] f \in {"purserUSHours", "purserUsHours"}       -> {Empty, Txt(2)}
      [] f \in {"purserNonUSHours", "purserNonUsHours"} -> {Empty, Txt(1)}

\* the order in which the forms list the fields
FieldOrder ==
    <<"payYear", "tripLength",
      "creditedHoursHours", "creditedHoursMinutes", "tafbHours", "tafbMinutes",
      "whiteFlag", "purpleFlag", "purpleFlagPremium",
      "galleyPay", "galleyHoursHours", "galleyHoursMinutes",
      "purserPay", "aircraftType",
      "purserUSHours", "purserNonUSHours", "purserUsHours", "purserNonUsHours",
      "intlOverride", "intlPayOverride", "languagePay",
      "holidayPay", "holidayHours",
      "retirementPercentage", "taxRate">>

\* at most MaxEdits fields of a modelled record differ from its base record
MaxEdits == 2

(***************************************************************************)
(* State                                                                   *)
(***************************************************************************)
VARIABLES
    app,    \* which of the three applications is running
    base,   \* the base record the trip was derived from
    arg,    \* the argument handed to calculateTripPay
    cursor, \* index in FieldOrder of the last field that was given a value
    nEdits, \* number of fields that differ from the base record
    pc,     \* "input" until calculateTripPay has been called, then "done"
    out     \* what the call produced

vars == <<app, base, arg, cursor, nEdits, pc, out>>

(***************************************************************************)
(* State of the trip list                                                  *)
(***************************************************************************)
\* the strings generateId can return, and the id a value without one has
Ids == {"i1", "i2"}
NoId == "undefined"

\* two of the card colors getRandomColor draws from
Colors == {"#3a36e0", "#ff9d00"}
NoColor == "undefined"

\* an object without any of the form's properties (and so without a name)
Bare == "Bare"

\* bestValueTripId before any trip has been looked at
NoBest == "null"

\* localStorage under the application's key: nothing, or a saved object
\* with its trips array
NoStorage == [k |-> "none", trips |-> <<>>]

\* history.lastState when there is none
NoState == [k |-> "null", trips |-> <<>>]

\* no deleted trip is waiting to be restored
NoTrip == [k |-> "none", id |-> NoId, color |-> NoColor, key |-> Bare]

\* state.editingTripId / uiState.selectedTripId while no trip is edited
NotEditing == "null"

\* the form of the modular application: what its fields show (shown), what
\* appState.currentForm holds (current), and whether saveFormData has run
\* on typed data since the storage was last cleared (saved)
EmptyForm == [shown |-> "", current |-> "", saved |-> FALSE]

VARIABLES
    trips,            \* state.trips / appState.trips
    lastState,        \* history.lastState
    lastOperation,    \* history.lastOperation
    tripsBefore,      \* the list before the last add, update, delete, clear
    bestValueTripId,  \* bestValueTripId of the last renderTrips
    cards,            \* the cards of the comparison container
    renderFailed,     \* the last rendering threw or reported a failure
    storage,          \* localStorage under the application's key
    issued,           \* the ids given to the trips created so far
    deletedTrip,      \* the trip the pending undo of the modular app restores
    phase,            \* "off", "boot" (before init) or "ready"
    calcs,            \* the calculation each card of the container shows
    editingTripId,    \* state.editingTripId / uiState.selectedTripId
    undoResult,       \* what the last call of undoLastOperation returned
    form              \* the form of the modular application

listVars == <<trips, lastState, lastOperation, tripsBefore, bestValueTripId, cards,
              renderFailed, storage, issued, deletedTrip, phase, calcs,
              editingTripId, undoResult, form>>

\* what the form handlers and the undo keep: the variables no operation of
\* the trip list itself writes
sessionVars == <<editingTripId, undoResult, form>>

\* the variables the operations on the trip list write
tripVars == <<trips, lastState, lastOperation, tripsBefore, bestValueTripId, cards,
              renderFailed, storage, issued, deletedTrip, phase, calcs>>

\* the trip list application is not running
ListIdle ==
    /\ trips = <<>>
    /\ lastState = NoState
    /\ tripsBefore = NoState
    /\ lastOperation = "null"
    /\ bestValueTripId = NoBest
    /\ cards = <<>>
    /\ renderFailed = FALSE
    /\ storage = NoStorage
    /\ issued = {}
    /\ deletedTrip = NoTrip
    /\ phase = "off"
    /\ calcs = <<>>
    /\ editingTripId = NotEditing
    /\ undoResult = "none"
    /\ form = EmptyForm

NotCalled == [threw |-> FALSE, pay |-> <<>>]

InitCalc ==
    /\ app \in Apps
    /\ base \in Bases
    /\ arg = Obj(BaseRecord(app, base))
    /\ cursor = 0
    /\ nEdits = 0
    /\ pc = "input"
    /\ out = NotCalled
    /\ ListIdle

\* the form / storage collaborator supplies a different value for the i-th
\* field; fields are filled in form order
SetField(i, v) ==
    /\ pc = "input"
    /\ arg.k = "obj"
    /\ i > cursor
    /\ nEdits < MaxEdits
    /\ arg.f[FieldOrder[i]] # v
    /\ arg' = [arg EXCEPT !.f[FieldOrder[i]] = v]
    /\ cursor' = i
    /\ nEdits' = nEdits + 1
    /\ UNCHANGED <<app, base, pc, out>>
    /\ UNCHANGED listVars

\* the caller hands over something that is not a trip object
PassNonObject(a) ==
    /\ pc = "input"
    /\ arg.k = "obj"
    /\ nEdits = 0
    /\ arg' = a
    /\ UNCHANGED <<app, base, cursor, nEdits, pc, out>>
    /\ UNCHANGED listVars

CalculateScript ==
    /\ pc = "input"
    /\ app = "script"
    /\ out' = calculateTripPayScript(arg)
    /\ pc' = "done"
    /\ UNCHANGED <<app, base, arg, cursor, nEdits>>
    /\ UNCHANGED listVars

CalculateMono ==
    /\ pc = "input"
    /\ app = "mono"
    /\ out' = calculateTripPayMono(arg)
    /\ pc' = "done"
    /\ UNCHANGED <<app, base, arg, cursor, nEdits>>
    /\ UNCHANGED listVars

CalculateTrips ==
    /\ pc = "input"
    /\ app = "modular"
    /\ out' = calculateTripPayTrips(arg)
    /\ pc' = "done"
    /\ UNCHANGED <<app, base, arg, cursor, nEdits>>
    /\ UNCHANGED listVars

NextCalc ==
    \/ \E i \in 1..Len(FieldOrder) :
          /\ FieldOrder[i] \in FormFields(app)
          /\ \E v \in FieldValues(app, FieldOrder[i]) : SetField(i, v)
    \/ \E a \in {NullArg, UndefArg, PrimArg} : PassNonObject(a)
    \/ CalculateScript
    \/ CalculateMono
    \/ CalculateTrips

SpecCalc == InitCalc /\ [][NextCalc]_vars

(***************************************************************************)
(* Reading the results                                                     *)
(***************************************************************************)
NumericApps == {"script", "mono"}

\* a calculator whose result depends on state.trips: on an empty list it
\* returns what it returns for no trip at all
CalcReadingList(a, x) ==
    CASE a = "script"  -> calculateTripPayScript(IF Len(trips) = 0 THEN NullArg
                                                 ELSE x)
      [] a = "mono"    -> calculateTripPayMono(IF Len(trips) = 0 THEN NullArg
                                               ELSE x)
      [] a = "modular" -> calculateTripPayTrips(x)

CalcFor(a, x) ==
    CASE a = "script"  -> calculateTripPayScript(x)
      [] a = "mono"    -> calculateTripPayMono(x)
      [] a = "modular" -> calculateTripPayTrips(x)

WithField(x, f, v) == [x EXCEPT !.f[f] = v]

\* the dollar amount a formatted field of the trips.js result shows
Amount(v) == IF v.dash THEN Zero ELSE Money(v.cents)

\* |x - y| <= c cents
Within(x, y, c) ==
    /\ Le(Sub(x, y), Money(c))
    /\ Le(Sub(y, x), Money(c))

\* a call on a trip object has returned
ReturnedFor(as) ==
    /\ pc = "done"
    /\ app \in as
    /\ arg.k = "obj"
    /\ ~out.threw

SumSeven(p) ==
    Add(Add(Add(Add(Add(Add(p.basePay, p.galleyPay), p.purserPay),
                    p.languagePay), p.intlOverridePay), p.perDiem),
        p.holidayPay)

SumSevenAmounts(p) ==
    Add(Add(Add(Add(Add(Add(Amount(p.basePay), Amount(p.galleyPay)),
                        Amount(p.purserPay)), Amount(p.languagePay)),
                Amount(p.intlOverridePay)), Amount(p.perDiem)),
        Amount(p.holidayPay))

\* C1: the gross pay of a result is the sum of its seven named components
\* (basePay, galleyPay, purserPay, languagePay, intlOverridePay, perDiem,
\* holidayPay) and nothing else; for the formatted result of trips.js the
\* amounts shown are compared, up to the rounding of eight figures.
C1_GrossIsSumOfSeven ==
    /\ ReturnedFor(NumericApps) => out.pay.totalGrossPay = SumSeven(out.pay)
    /\ ReturnedFor({"modular"}) =>
           Within(Amount(out.pay.grossPay), SumSevenAmounts(out.pay), 4)

\* the percentage a trip record carries, read as the claims read it
Pct(f) == parseFloat(arg.f[f])

InPercentRange(x) == Le(Zero, x) /\ Le(x, Int2Num(100))

\* (gross - gross * r / 100) * (1 - t / 100)
NetAfterRetirementThenTax(gross, r, t) ==
    Mul(Sub(gross, Mul(gross, Div(r, Int2Num(100)))),
        Sub(Int2Num(1), Div(t, Int2Num(100))))

\* C2: with retirement percentage r and tax rate t in 0..100 the net pay
\* estimate is (gross - gross*r/100) * (1 - t/100): tax is taken on what is
\* left after the retirement deduction, not on gross.
C2_TaxAfterRetirement ==
    InPercentRange(Pct("retirementPercentage")) /\ InPercentRange(Pct("taxRate"))
    =>
    /\ ReturnedFor(NumericApps) =>
           out.pay.netPayEstimate =
               NetAfterRetirementThenTax(out.pay.totalGrossPay,
                                         Pct("retirementPercentage"),
                                         Pct("taxRate"))
    /\ ReturnedFor({"modular"}) =>
           Within(Amount(out.pay.netPayEstimate),
                  NetAfterRetirementThenTax(Amount(out.pay.grossPay),
                                            Pct("retirementPercentage"),
                                            Pct("taxRate")), 1)

GrossOf(o) ==
    IF app = "modular" THEN Amount(o.pay.grossPay) ELSE o.pay.totalGrossPay

NetOf(o) ==
    IF app = "modular" THEN Amount(o.pay.netPayEstimate)
    ELSE o.pay.netPayEstimate

\* C3: the net pay estimate is at most the gross pay whenever the
\* retirement percentage or the tax rate is positive, and equals the gross
\* pay when both are 0.
C3_NetAtMostGross ==
    ReturnedFor(Apps) =>
        /\ (Gt(Pct("retirementPercentage"), Zero) \/ Gt(Pct("taxRate"), Zero))
               => Le(NetOf(out), GrossOf(out))
        /\ (Pct("retirementPercentage") = Zero /\ Pct("taxRate") = Zero)
               => NetOf(out) = GrossOf(out)

\* the pay year a record names, when it names one of the table (a missing
\* pay year stands for "Year 1")
PayYearKey ==
    ToStringJS(IF Truthy(arg.f.payYear) THEN arg.f.payYear ELSE Str(Year1))

CreditedHours ==
    parseHM(arg.f.creditedHoursHours, arg.f.creditedHoursMinutes)

DutyHours == parseHM(arg.f.tafbHours, arg.f.tafbMinutes)

\* C4: a record stored with the white and the purple flag switched off, as
\* the application's own form stores an off toggle, is paid with flag
\* multiplier 1: effectiveRate is the year's baseRate and basePay is
\* creditedHours * baseRate.
C4_FlagsOffMultiplierOne ==
    /\ ReturnedFor(NumericApps)
    /\ PayYearKey \in YearKeys
    /\ arg.f.whiteFlag = FormToggle(app, "whiteFlag", FALSE)
    /\ arg.f.purpleFlag = FormToggle(app, "purpleFlag", FALSE)
    =>
    /\ out.pay.effectiveRate = PAY_RATES[PayYearKey].baseRate
    /\ out.pay.basePay = Mul(CreditedHours, PAY_RATES[PayYearKey].baseRate)

PerDayOf(o) ==
    IF app = "modular" THEN Amount(o.pay.dailyValue) ELSE o.pay.perDayValue

\* C5: a record whose trip length is 0 days gets perDayValue = 0.
C5_ZeroLengthZeroPerDay ==
    ReturnedFor(Apps) /\ parseInt(arg.f.tripLength) = Zero
    => PerDayOf(out) = Zero

\* C6: a record whose pay year is missing or is not a key of the pay-rate
\* table gets exactly the result of the same record with pay year "Year 1".
C6_UnknownYearIsYearOne ==
    ReturnedFor(Apps)
        /\ (arg.f.payYear = Undefined \/ ToStringJS(arg.f.payYear) \notin YearKeys)
    => out = CalcFor(app, WithField(arg, "payYear", Str(Year1)))

HolidayOf(o) ==
    IF app = "modular" THEN Amount(o.pay.holidayPay) ELSE o.pay.holidayPay

\* C7: a record with 0 duty (TAFB) hours gets holidayPay = 0, whatever the
\* holiday hours and whether or not holiday pay is enabled.
C7_NoDutyNoHolidayPay ==
    ReturnedFor(Apps) /\ DutyHours = Zero => HolidayOf(out) = Zero

\* the rate the claims call effectiveRate: the one the result reports, or,
\* for trips.js (which reports none), the base rate of a record whose two
\* flags are off
EffectiveRateOf(o) ==
    IF app = "modular" THEN TripsBaseRate(arg.f) ELSE o.pay.effectiveRate

\* C8: with holiday pay enabled and duty hours > 0, holidayPay is
\* (effectiveRate * creditedHours / dutyHours) * holidayHours.
C8_HolidayPayProrated ==
    /\ ReturnedFor(Apps)
    /\ arg.f.holidayPay = FormToggle(app, "holidayPay", TRUE)
    /\ Gt(DutyHours, Zero)
    /\ app = "modular" => ~Truthy(arg.f.whiteFlag) /\ ~Truthy(arg.f.purpleFlag)
    => Within(HolidayOf(out),
              Mul(Div(Mul(EffectiveRateOf(out), CreditedHours), DutyHours),
                  OrNum(parseFloat(arg.f.holidayHours), Zero)),
              IF app = "modular" THEN 1 ELSE 0)

AllZero(p) ==
    \A f \in DOMAIN p :
        IF app = "modular" THEN p[f].cents = 0 ELSE p[f] = Zero

\* C9: calculateTripPay raises no error for any argument, and returns an
\* all-zero result for null, undefined or a non-object.
C9_NeverThrows ==
    pc = "done" =>
        /\ ~out.threw
        /\ arg.k # "obj" => AllZero(out.pay)

AllFinite(p) ==
    \A f \in DOMAIN p : app \in NumericApps => ~isNaN(p[f])

ZeroIfUnparseable(x, f) ==
    IF isNaN(parseFloat(x.f[f])) THEN WithField(x, f, Txt(0)) ELSE x

\* C10: a missing, empty or unparseable retirementPercentage or taxRate is
\* treated as 0: every field of the result is a number and the net pay
\* estimate is the one obtained with that field set to 0.
C10_BadPercentageIsZero ==
    ReturnedFor(Apps)
        /\ (isNaN(Pct("retirementPercentage")) \/ isNaN(Pct("taxRate")))
    =>
    /\ AllFinite(out.pay)
    /\ NetOf(out) =
           NetOf(CalcFor(app,
                 ZeroIfUnparseable(ZeroIfUnparseable(arg, "retirementPercentage"),
                                   "taxRate")))

(***************************************************************************)
(* Flag composition                                                        *)
(***************************************************************************)
\* the toggle f of the record is stored as the application's form stores a
\* switched-on (switched-off) toggle
ToggleOn(f)  == arg.f[f] = FormToggle(app, f, TRUE)
ToggleOff(f) == arg.f[f] = FormToggle(app, f, FALSE)

PurplePremiumLabel == ToStringJS(arg.f.purpleFlagPremium)

\* baseRate * (1.5 if the white flag is on) * (premium if the purple flag is on)
ComposedRate ==
    Mul(Mul(PAY_RATES[PayYearKey].baseRate,
            IF ToggleOn("whiteFlag") THEN Rat(3, 2) ELSE Int2Num(1)),
        IF ToggleOn("purpleFlag") THEN FLAG_RATES_purple[PurplePremiumLabel]
        ELSE Int2Num(1))

\* what trips.js pays for the credited hours: base pay plus the two flag pays
TripsHourlyPaid(p) ==
    Add(Add(Amount(p.basePay), Amount(p.whiteFlagPay)), Amount(p.purpleFlagPay))

\* the record names a pay year of the table and a known premium label
FlagCase ==
    /\ PayYearKey \in YearKeys
    /\ PurplePremiumLabel \in DOMAIN FLAG_RATES_purple
    /\ ToggleOn("whiteFlag") \/ ToggleOff("whiteFlag")
    /\ ToggleOn("purpleFlag") \/ ToggleOff("purpleFlag")

\* C11: the credited hours are paid at effectiveRate = baseRate * (1.5 if
\* the white flag is on, else 1) * (the purple premium if the purple flag is
\* on, else 1); the two flag multipliers compose multiplicatively.
C11_FlagsComposeMultiplicatively ==
    FlagCase =>
        /\ ReturnedFor({"mono"}) =>
               /\ out.pay.effectiveRate = ComposedRate
               /\ out.pay.basePay = Mul(CreditedHours, ComposedRate)
        /\ ReturnedFor({"modular"}) =>
               Within(TripsHourlyPaid(out.pay),
                      Mul(CreditedHours, ComposedRate), 2)

(***************************************************************************)
(* Optional components                                                     *)
(***************************************************************************)
\* the optional components of a result
OptionalComponents ==
    {"galleyPay", "purserPay", "intlOverridePay", "languagePay", "holidayPay"}

\* the toggle of the record that enables the optional component c
ToggleOf(c) == IF c = "intlOverridePay" THEN "intlPayOverride" ELSE c

\* the amount of component c in the result o
ComponentOf(o, c) ==
    IF app = "modular" THEN Amount(o.pay[c]) ELSE o.pay[c]

GalleyHoursRecorded ==
    parseHM(arg.f.galleyHoursHours, arg.f.galleyHoursMinutes)

\* C12: each optional component (galleyPay, purserPay, intlOverridePay,
\* languagePay, holidayPay) of a result is 0 when the record's toggle for it
\* is off, whatever hours the record holds for that component; trips.js
\* shows '--' for it and adds nothing to the gross.
C12_OffComponentIsZero ==
    ReturnedFor(Apps) =>
        \A c \in OptionalComponents :
            ToggleOff(ToggleOf(c)) =>
                /\ ComponentOf(out, c) = Zero
                /\ app = "modular" => out.pay[c] = Dash

\* C12 witness: a call has returned for a record whose galley toggle is off
\* while galley hours are recorded, and whose gross is not zero
C12_Witness ==
    /\ ReturnedFor(Apps)
    /\ ToggleOff("galleyPay")
    /\ Gt(GalleyHoursRecorded, Zero)
    /\ ToggleOn("purserPay")
    /\ Gt(GrossOf(out), Zero)
    /\ ComponentOf(out, "galleyPay") = Zero

(***************************************************************************)
(* Unknown keys                                                            *)
(***************************************************************************)
\* the base rate times the white multiplier alone
WhiteOnlyRate ==
    Mul(PAY_RATES[PayYearKey].baseRate,
        IF ToggleOn("whiteFlag") THEN Rat(3, 2) ELSE Int2Num(1))

\* C16: with the purple flag on and a premium label that is not a known
\* label, the purple multiplier is 1: the rate is the base rate times the
\* white multiplier alone and the result is that of the same record with the
\* purple flag off.
C16_UnknownPremiumIsOne ==
    /\ ReturnedFor(NumericApps)
    /\ PayYearKey \in YearKeys
    /\ ToggleOn("purpleFlag")
    /\ ToggleOn("whiteFlag") \/ ToggleOff("whiteFlag")
    /\ PurplePremiumLabel \notin DOMAIN FLAG_RATES_purple
    =>
    /\ out.pay.effectiveRate = WhiteOnlyRate
    /\ out = CalcFor(app, WithField(arg, "purpleFlag",
                                    FormToggle(app, "purpleFlag", FALSE)))

AircraftTypes == {Narrow1, Narrow2, Wide}

\* C17: with purser pay enabled and an aircraft type that is missing or is
\* none of Narrow1, Narrow2, Wide, purserPay is what the same record gets
\* with aircraft type "Narrow1".
C17_UnknownAircraftIsNarrow1 ==
    /\ ReturnedFor(Apps)
    /\ ToggleOn("purserPay")
    /\ \/ arg.f.aircraftType = Undefined
       \/ ToStringJS(arg.f.aircraftType) \notin AircraftTypes
    =>
    ComponentOf(out, "purserPay") =
        ComponentOf(CalcFor(app, WithField(arg, "aircraftType", Str(Narrow1))),
                    "purserPay")

(***************************************************************************)
(* Hourly value                                                            *)
(***************************************************************************)
HourlyOf(o) ==
    IF app = "modular" THEN Amount(o.pay.hourlyValue) ELSE o.pay.hourlyValue

\* C18: a record whose credited hours are 0 gets hourlyValue = 0, also when
\* the gross pay is positive.
C18_NoCreditedHoursNoHourlyValue ==
    ReturnedFor(Apps) /\ CreditedHours = Zero => HourlyOf(out) = Zero

\* C18 witness: a call has returned hourlyValue 0 for a record with no
\* credited hours whose gross pay (per diem) is positive
C18_Witness ==
    /\ ReturnedFor(NumericApps)
    /\ CreditedHours = Zero
    /\ Gt(GrossOf(out), Zero)
    /\ HourlyOf(out) = Zero

(***************************************************************************)
(* The trip list: state.trips of script.js and of the monolith,            *)
(* appState.trips of ui.js                                                 *)
(***************************************************************************)
\* the trip data a form submission can carry, by name
TripKeys == {"A", "Full"}

\* the properties of the trip data named key, as application a stores them
TripFields(a, key) ==
    CASE key = "A"    -> BaseA(a)
      [] key = "Full" -> BaseFull(a)
      [] OTHER        -> NoFields

\* elements of a trip list: a trip object, or what JSON can hold in its place
Trip(id, color, key) == [k |-> "obj", id |-> id, color |-> color, key |-> key]
NullTrip == [k |-> "null", id |-> NoId, color |-> NoColor, key |-> Bare]
PrimTrip == [k |-> "prim", id |-> NoId, color |-> NoColor, key |-> Bare]

\* the argument calculateTripPay receives for list element e
TripArg(a, e) ==
    CASE e.k = "obj"  -> Obj(TripFields(a, e.key))
      [] e.k = "null" -> NullArg
      [] OTHER        -> PrimArg

\* trip.name is truthy
HasName(e) == e.k = "obj" /\ e.key \in TripKeys

\* what a stored trip object can hold instead of the form's data: nothing
\* (Bare), or only a date, of January ("Jan") or of February ("Feb")
StoredKeys == {Bare, "Jan", "Feb"}

\* new Date(trip.date): the month of a stored date, 0 for an Invalid Date
dateOf(e) ==
    CASE e.key = "Jan" -> 1
      [] e.key = "Feb" -> 2
      [] OTHER         -> 0

\* calc.perDayValue of every element the lists of the model can hold
PerDayValues ==
    [a \in NumericApps |->
        [e \in {Trip(NoId, NoColor, key) : key \in TripKeys \cup StoredKeys}
               \cup {NullTrip, PrimTrip} |->
            CalcFor(a, TripArg(a, e)).pay.perDayValue]]

perDayValue(a, e) ==
    PerDayValues[a][[e EXCEPT !.id = NoId, !.color = NoColor]]

\* the state of the best-value pass: threw, found (bestMetric is above
\* -Infinity), metric (bestMetric), id (bestValueTripId)
BestStart == [threw |-> FALSE, found |-> FALSE, metric |-> Zero, id |-> NoBest]

\* calc.perDayValue >= bestMetric
BeatsOrTiesBest(v, acc) ==
    ~v.nan /\ (~acc.found \/ ~Gt(acc.metric, v))

\* calc.perDayValue > bestMetric
BeatsBest(v, acc) == ~v.nan /\ (~acc.found \/ Gt(v, acc.metric))

\* one round of the best-value pass: bestMetric is assigned first, then
\* trip.id is read, which throws for a null element (in the monolith the
\* per-trip catch then reads trip.name and throws again)
BestStep(e, v, acc) ==
    IF ~BeatsBest(v, acc) THEN acc
    ELSE IF e.k = "null"
         THEN [acc EXCEPT !.threw = TRUE, !.found = TRUE, !.metric = v]
         ELSE [threw |-> FALSE, found |-> TRUE, metric |-> v, id |-> e.id]

\* the best-value pass of renderTrips over list from index i on
RECURSIVE BestValuePass(_, _, _, _)
BestValuePass(a, list, i, acc) ==
    IF i > Len(list) \/ acc.threw THEN acc
    ELSE BestValuePass(a, list, i + 1,
                       BestStep(list[i], perDayValue(a, list[i]), acc))

\* a card of the comparison container: the trip id it carries and whether
\* its best-value badge is shown
Card(id, badge) == [id |-> id, badge |-> badge]

\* the card pass of renderTrips in script.js: renderTripCard reads trip.id
\* and throws for a null element
RECURSIVE ScriptCardPass(_, _, _, _)
ScriptCardPass(list, i, best, shown) ==
    IF i > Len(list) THEN [threw |-> FALSE, cards |-> shown]
    ELSE IF list[i].k = "null" THEN [threw |-> TRUE, cards |-> shown]
    ELSE ScriptCardPass(list, i + 1, best,
             Append(shown, Card(list[i].id,
                                list[i].id = best /\ Len(list) > 1)))

\* the card pass of renderTrips in the monolith: renderTripCard returns an
\* empty div for an element without id; a failure while marking a card is
\* caught per trip and the card is not appended, except that for a null
\* element the catch handler itself throws
RECURSIVE MonoCardPass(_, _, _, _)
MonoCardPass(list, i, best, shown) ==
    IF i > Len(list) THEN [threw |-> FALSE, cards |-> shown]
    ELSE IF list[i].k = "null" THEN [threw |-> TRUE, cards |-> shown]
    ELSE IF list[i].id = NoId
         THEN MonoCardPass(list, i + 1, best,
                  IF NoId = best /\ Len(list) > 1 THEN shown
                  ELSE Append(shown, Card(NoId, FALSE)))
    ELSE MonoCardPass(list, i + 1, best,
             Append(shown, Card(list[i].id,
                                list[i].id = best /\ Len(list) > 1)))

\* what a call of renderTrips leaves: whether it threw (script.js) or
\* reported a failure (monolith), bestValueTripId, the cards of the
\* container, and whether saveTripsToLocalStorage was reached
Rendered(threw, best, shown, saved) ==
    [threw |-> threw, best |-> best, cards |-> shown, saved |-> saved]

RenderedCards(best, pass) ==
    Rendered(pass.threw, best, pass.cards, ~pass.threw)

ScriptRenderFrom(list, acc) ==
    IF acc.threw THEN Rendered(TRUE, acc.id, <<>>, FALSE)
    ELSE RenderedCards(acc.id, ScriptCardPass(list, 1, acc.id, <<>>))

renderTripsScript(list) ==
    IF Len(list) = 0 THEN Rendered(FALSE, NoBest, <<>>, FALSE)
    ELSE ScriptRenderFrom(list, BestValuePass("script", list, 1, BestStart))

MonoRenderFrom(list, acc) ==
    IF acc.threw THEN Rendered(TRUE, acc.id, <<>>, FALSE)
    ELSE RenderedCards(acc.id, MonoCardPass(list, 1, acc.id, <<>>))

renderTripsMono(list) ==
    IF Len(list) = 0 THEN Rendered(FALSE, NoBest, <<>>, TRUE)
    ELSE MonoRenderFrom(list, BestValuePass("mono", list, 1, BestStart))

\* appState.trips itself, handed out instead of a copy
TheListItself(list) == [shared |-> TRUE, elems |-> list]

\* getAllTrips() of ui.js: [...appState.trips], a new array (shared is
\* FALSE) with the elements of the list
getAllTrips(list) == [shared |-> FALSE, elems |-> list]

\* the comparator of showTripList, new Date(b.date) - new Date(a.date), is
\* negative: both dates are valid and the date of x is the later one (NaN,
\* for an Invalid Date, orders nothing)
NewerFirst(x, y) == dateOf(x) > 0 /\ dateOf(y) > 0 /\ dateOf(x) > dateOf(y)

\* sorted with e inserted: behind every element it is not to precede
RECURSIVE InsertByDate(_, _, _)
InsertByDate(sorted, e, j) ==
    IF j = 0 \/ ~NewerFirst(e, sorted[j])
    THEN SubSeq(sorted, 1, j) \o <<e>> \o SubSeq(sorted, j + 1, Len(sorted))
    ELSE InsertByDate(sorted, e, j - 1)

\* array.sort(comparator) on a short array: a stable insertion sort;
\* sorted holds the first i - 1 elements in order
RECURSIVE SortByDate(_, _, _)
SortByDate(array, i, sorted) ==
    IF i > Len(array) THEN sorted
    ELSE SortByDate(array, i + 1, InsertByDate(sorted, array[i], Len(sorted)))

\* the comparator reads the date property of a null element and throws
SortThrows(array) ==
    Len(array) >= 2 /\ \E i \in 1..Len(array) : array[i].k = "null"

\* showTripList(container, trips): the container is cleared, the array is
\* sorted in place, and one card per trip is appended, without badge
showTripList(array) ==
    IF SortThrows(array) THEN Rendered(TRUE, NoBest, <<>>, FALSE)
    ELSE RenderedCards(NoBest,
                       ScriptCardPass(SortByDate(array, 1, <<>>), 1, NoBest,
                                      <<>>))

\* refreshTripList of the modular application: showTripList on the array
\* getAllTrips() returned; createTripCard throws for a null element and
\* refreshTripList reports it
refreshTripList(list) == showTripList(getAllTrips(list).elems)

\* appState.trips after refreshTripList(): sorted too if the array that was
\* sorted is appState.trips itself
AfterRefresh(list) ==
    IF getAllTrips(list).shared /\ ~SortThrows(list)
    THEN SortByDate(list, 1, <<>>)
    ELSE list

\* state.trips.findIndex(t => t.id === tripId): the index found (0 for -1),
\* or threw when a null element is reached first
RECURSIVE findIndex(_, _, _)
findIndex(list, tripId, i) ==
    IF i > Len(list) THEN [threw |-> FALSE, index |-> 0]
    ELSE IF list[i].k = "null" THEN [threw |-> TRUE, index |-> 0]
    ELSE IF list[i].id = tripId THEN [threw |-> FALSE, index |-> i]
    ELSE findIndex(list, tripId, i + 1)

\* list.splice(index, 1)
Splice(list, index) ==
    [i \in 1..(Len(list) - 1) |-> IF i < index THEN list[i] ELSE list[i + 1]]

\* JSON.parse(JSON.stringify(list)): an element keeps its kind and the
\* properties it has
JSONCopy(list) ==
    [i \in 1..Len(list) |->
        IF list[i].k = "obj"
        THEN Trip(list[i].id, list[i].color, list[i].key)
        ELSE list[i]]

Stored(list) == [k |-> "object", trips |-> JSONCopy(list)]

Snapshot(list) == [k |-> "array", trips |-> JSONCopy(list)]

\* lists a previous session, or anything else that writes the key, may have
\* left in localStorage
StoredLists ==
    {<<Trip("i1", "#3a36e0", "A"), Trip("i2", "#ff9d00", "Full")>>,
     <<Trip("i1", "#3a36e0", "A"), NullTrip, Trip("i2", "#ff9d00", "Full")>>,
     <<NullTrip, Trip("i1", "#3a36e0", "A"), Trip("i2", "#ff9d00", "Full")>>,
     <<Trip("i1", "#3a36e0", "Full"), PrimTrip, Trip("i2", "#ff9d00", "A")>>,
     <<Trip("i1", "#3a36e0", "A"), Trip(NoId, NoColor, Bare),
       Trip("i2", "#ff9d00", "Full")>>,
     <<Trip("i1", "#3a36e0", "Jan"), Trip("i2", "#ff9d00", "Feb")>>}

\* at most MaxTrips trips are added to a list
MaxTrips == 2

(***************************************************************************)
(* Operations on the trip list                                             *)
(***************************************************************************)
\* the calculator's call state while the trip list application runs
CalcIdle ==
    /\ base = "A"
    /\ arg = NullArg
    /\ cursor = 0
    /\ nEdits = 0
    /\ pc = "idle"
    /\ out = NotCalled

InitTrips ==
    /\ app \in Apps
    /\ CalcIdle
    /\ trips = <<>>
    /\ lastState = NoState
    /\ tripsBefore = NoState
    /\ lastOperation = "null"
    /\ bestValueTripId = NoBest
    /\ cards = <<>>
    /\ renderFailed = FALSE
    /\ storage \in {NoStorage} \cup {Stored(l) : l \in StoredLists}
    /\ issued = {}
    /\ deletedTrip = NoTrip
    /\ phase = "boot"
    /\ calcs = <<>>
    /\ editingTripId = NotEditing
    /\ undoResult = "none"
    /\ form = EmptyForm

\* renderTrips() of application a on the new list: the list is in place,
\* the container shows what the call rendered, and localStorage holds the
\* list if saveTripsToLocalStorage was reached
renderTrips(a, list) ==
    IF a = "script" THEN renderTripsScript(list) ELSE renderTripsMono(list)

\* calculateTripPay(trip) of every element the lists of the model can hold
Calculations ==
    [a \in NumericApps |->
        [e \in {Trip(NoId, NoColor, key) : key \in TripKeys \cup StoredKeys}
               \cup {NullTrip, PrimTrip} |->
            CalcFor(a, TripArg(a, e))]]

\* const calculation = calculateTripPay(trip) of renderTripCard
calculationOf(a, e) ==
    Calculations[a][[e EXCEPT !.id = NoId, !.color = NoColor]]

\* the calculations the cards shown display: renderTrips draws the cards in
\* list order, so card i is the card of list[i]
CardCalculations(a, list, shown) ==
    [i \in 1..Len(shown) |-> calculationOf(a, list[i])]

Show(list, r) ==
    /\ trips' = list
    /\ bestValueTripId' = r.best
    /\ cards' = r.cards
    /\ calcs' = CardCalculations(app, list, r.cards)
    /\ renderFailed' = r.threw
    /\ storage' = IF r.saved THEN Stored(list) ELSE storage

\* the monolith's filter of loaded trips: objects with an id and a name
ValidLoaded(list) ==
    SelectSeq(list, LAMBDA e : e.k = "obj" /\ e.id # NoId /\ HasName(e))

\* init() of script.js: loadTripsFromLocalStorage(), then renderTrips()
InitScript ==
    /\ phase = "boot"
    /\ app = "script"
    /\ Show(storage.trips, renderTripsScript(storage.trips))
    /\ phase' = "ready"
    /\ UNCHANGED <<lastState, lastOperation, tripsBefore, issued, deletedTrip>>
    /\ UNCHANGED sessionVars
    /\ UNCHANGED vars

\* init() of the monolith: loadTripsFromLocalStorage() keeps the valid
\* trips and renders them; without saved data it only empties the list
InitMono ==
    /\ phase = "boot"
    /\ app = "mono"
    /\ IF storage.k = "none"
       THEN /\ trips' = <<>>
            /\ UNCHANGED <<bestValueTripId, cards, calcs, renderFailed,
                           storage>>
       ELSE Show(ValidLoaded(storage.trips),
                 renderTripsMono(ValidLoaded(storage.trips)))
    /\ phase' = "ready"
    /\ UNCHANGED <<lastState, lastOperation, tripsBefore, issued, deletedTrip>>
    /\ UNCHANGED sessionVars
    /\ UNCHANGED vars

\* init of the modular application: loadAppState(), then the trip list is
\* refreshed
InitModular ==
    /\ phase = "boot"
    /\ app = "modular"
    /\ trips' = AfterRefresh(storage.trips)
    /\ cards' = refreshTripList(storage.trips).cards
    /\ renderFailed' = refreshTripList(storage.trips).threw
    /\ phase' = "ready"
    /\ form' = [form EXCEPT !.shown = IF form.current # "" THEN form.current
                                      ELSE form.shown]
    /\ UNCHANGED <<lastState, lastOperation, tripsBefore, bestValueTripId, storage, issued,
                   deletedTrip, calcs, editingTripId, undoResult>>
    /\ UNCHANGED vars

\* a form submission while no trip is being edited, in script.js and in the
\* monolith: addTrip(tripData) saves the history state, gives the trip a
\* random id and a random color, appends it and renders
AddTrip(key, id, color) ==
    /\ phase = "ready"
    /\ app \in NumericApps
    /\ Len(trips) < MaxTrips
    /\ lastOperation' = "add"
    /\ lastState' = Snapshot(trips)
    /\ tripsBefore' = Snapshot(trips)
    /\ Show(Append(trips, Trip(id, color, key)),
            renderTrips(app, Append(trips, Trip(id, color, key))))
    /\ issued' = issued \cup {id}
    /\ UNCHANGED <<deletedTrip, phase>>
    /\ UNCHANGED vars

\* the list with the trip at index removed and the submitted data appended
\* under the same id and the old color
MovedToEnd(list, index, tripId, key) ==
    Append(Splice(list, index), Trip(tripId, list[index].color, key))

\* the list with the trip at index replaced by the submitted data under the
\* same id and the old color
Replaced(list, index, tripId, key) ==
    [list EXCEPT ![index] = Trip(tripId, list[index].color, key)]

\* a form submission while trip tripId is being edited, in script.js:
\* tripOperations.update saves the history state before it looks the trip up
UpdateTripScript(tripId, key) ==
    /\ phase = "ready"
    /\ app = "script"
    /\ lastOperation' = "update"
    /\ lastState' = Snapshot(trips)
    /\ tripsBefore' = Snapshot(trips)
    /\ IF ~findIndex(trips, tripId, 1).threw
            /\ findIndex(trips, tripId, 1).index > 0
       THEN Show(Replaced(trips, findIndex(trips, tripId, 1).index, tripId, key),
                 renderTripsScript(
                     Replaced(trips, findIndex(trips, tripId, 1).index,
                              tripId, key)))
       ELSE UNCHANGED <<trips, bestValueTripId, cards, calcs, renderFailed,
                        storage>>
    /\ UNCHANGED <<issued, deletedTrip, phase>>
    /\ UNCHANGED vars

\* the same in the monolith: updateTrip returns before saving the history
\* state when the trip is not found
UpdateTripMono(tripId, key) ==
    /\ phase = "ready"
    /\ app = "mono"
    /\ ~findIndex(trips, tripId, 1).threw
    /\ findIndex(trips, tripId, 1).index > 0
    /\ lastOperation' = "update"
    /\ lastState' = Snapshot(trips)
    /\ tripsBefore' = Snapshot(trips)
    /\ Show(Replaced(trips, findIndex(trips, tripId, 1).index, tripId, key),
            renderTripsMono(
                Replaced(trips, findIndex(trips, tripId, 1).index, tripId, key)))
    /\ UNCHANGED <<issued, deletedTrip, phase>>
    /\ UNCHANGED vars

\* deleteTrip(tripId), confirmed, in script.js and in the monolith
DeleteTrip(tripId) ==
    /\ phase = "ready"
    /\ app \in NumericApps
    /\ ~findIndex(trips, tripId, 1).threw
    /\ findIndex(trips, tripId, 1).index > 0
    /\ lastOperation' = "delete"
    /\ lastState' = Snapshot(trips)
    /\ tripsBefore' = Snapshot(trips)
    /\ Show(Splice(trips, findIndex(trips, tripId, 1).index),
            renderTrips(app, Splice(trips, findIndex(trips, tripId, 1).index)))
    /\ UNCHANGED <<issued, deletedTrip, phase>>
    /\ UNCHANGED sessionVars
    /\ UNCHANGED vars

\* an undo that restores the list and keeps the history state
UndoKeepingHistory ==
    /\ phase = "ready"
    /\ app \in NumericApps
    /\ lastState # NoState
    /\ lastOperation # "null"
    /\ Show(lastState.trips, renderTrips(app, lastState.trips))
    /\ undoResult' = "true"
    /\ UNCHANGED <<lastState, lastOperation, tripsBefore, issued, deletedTrip,
                   phase, editingTripId, form>>
    /\ UNCHANGED vars

\* history.undoLastOperation() when there is something to undo
Undo ==
    /\ phase = "ready"
    /\ app \in NumericApps
    /\ lastState # NoState
    /\ lastOperation # "null"
    /\ Show(lastState.trips, renderTrips(app, lastState.trips))
    /\ lastState' = NoState
    /\ lastOperation' = "null"
    /\ undoResult' = IF app = "script" /\ renderFailed' THEN undoResult
                     ELSE "true"
    /\ UNCHANGED <<tripsBefore, issued, deletedTrip, phase, editingTripId, form>>
    /\ UNCHANGED vars

\* history.undoLastOperation() when there is nothing to undo: it returns
\* false
UndoNothing ==
    /\ phase = "ready"
    /\ app \in NumericApps
    /\ lastState = NoState \/ lastOperation = "null"
    /\ undoResult' = "false"
    /\ UNCHANGED <<tripVars, editingTripId, form>>
    /\ UNCHANGED vars

\* clearAllTrips(), confirmed, on a list that is not empty
ClearAll ==
    /\ phase = "ready"
    /\ app \in NumericApps
    /\ Len(trips) > 0
    /\ Show(<<>>, renderTrips(app, <<>>))
    /\ tripsBefore' = Snapshot(trips)
    /\ UNCHANGED <<lastState, lastOperation, issued, deletedTrip, phase>>
    /\ UNCHANGED sessionVars
    /\ UNCHANGED vars

\* editTrip(tripId), from the edit button of a trip of the list
EditTrip(tripId) ==
    /\ phase = "ready"
    /\ app \in NumericApps
    /\ ~findIndex(trips, tripId, 1).threw
    /\ findIndex(trips, tripId, 1).index > 0
    /\ editingTripId' = tripId
    /\ UNCHANGED <<tripVars, undoResult, form>>
    /\ UNCHANGED vars

\* handleFormSubmit of script.js on valid form data: updateTrip of the
\* trip being edited, or addTrip; then resetForm() ends the editing, unless
\* an exception of the operation has left the handler before
HandleFormSubmitScript(key) ==
    /\ app = "script"
    /\ IF editingTripId = NotEditing
       THEN /\ \E id \in Ids, color \in Colors : AddTrip(key, id, color)
            /\ editingTripId' = NotEditing
       ELSE /\ UpdateTripScript(editingTripId, key)
            /\ editingTripId' =
                   IF \/ findIndex(trips, editingTripId, 1).threw
                      \/ /\ findIndex(trips, editingTripId, 1).index > 0
                         /\ renderFailed'
                   THEN editingTripId
                   ELSE NotEditing
    /\ UNCHANGED <<undoResult, form>>

\* tripFormSubmitHandler of the monolith on valid form data: updateTrip,
\* which changes nothing for a trip that is not in the list, or addTrip;
\* then resetForm()
HandleFormSubmitMono(key) ==
    /\ app = "mono"
    /\ phase = "ready"
    /\ IF editingTripId = NotEditing
       THEN \E id \in Ids, color \in Colors : AddTrip(key, id, color)
       ELSE IF /\ ~findIndex(trips, editingTripId, 1).threw
               /\ findIndex(trips, editingTripId, 1).index > 0
            THEN UpdateTripMono(editingTripId, key)
            ELSE UNCHANGED <<tripVars, vars>>
    /\ editingTripId' = NotEditing
    /\ UNCHANGED <<undoResult, form>>

\* what the modular application shows after list became the trip list:
\* saveAppState() has stored it and refreshTripList() has drawn it
Refreshed(list) ==
    /\ trips' = AfterRefresh(list)
    /\ storage' = Stored(list)
    /\ cards' = refreshTripList(list).cards
    /\ renderFailed' = refreshTripList(list).threw
    /\ UNCHANGED <<lastState, lastOperation, tripsBefore, bestValueTripId, calcs>>

\* a form submission of the modular application while no trip is selected:
\* addTrip(formData) of ui.js with a generated id, then refreshTripList()
AddTripUI(key, id) ==
    /\ phase = "ready"
    /\ app = "modular"
    /\ Len(trips) < MaxTrips
    /\ Refreshed(Append(trips, Trip(id, NoColor, key)))
    /\ issued' = issued \cup {id}
    /\ UNCHANGED <<deletedTrip, phase>>
    /\ UNCHANGED vars

\* a form submission while trip tripId is selected: updateTrip(tripId,
\* formData) of ui.js spreads the form data over the stored trip
UpdateTripUI(tripId, key) ==
    /\ phase = "ready"
    /\ app = "modular"
    /\ ~findIndex(trips, tripId, 1).threw
    /\ findIndex(trips, tripId, 1).index > 0
    /\ Refreshed(Replaced(trips, findIndex(trips, tripId, 1).index, tripId, key))
    /\ UNCHANGED <<issued, deletedTrip, phase>>
    /\ UNCHANGED vars

\* deleteTripConfirmed(trip): the trip is copied for the undo link of the
\* toast, deleted by id and the list is refreshed
DeleteTripUI(tripId) ==
    /\ phase = "ready"
    /\ app = "modular"
    /\ ~findIndex(trips, tripId, 1).threw
    /\ findIndex(trips, tripId, 1).index > 0
    /\ deletedTrip' = trips[findIndex(trips, tripId, 1).index]
    /\ Refreshed(Splice(trips, findIndex(trips, tripId, 1).index))
    /\ UNCHANGED <<issued, phase>>
    /\ UNCHANGED sessionVars
    /\ UNCHANGED vars

\* the undo link of the toast: addTrip(deletedTrip), whose id property
\* overrides the generated id, then refreshTripList(); the toasts are
\* cleared
UndoUI ==
    /\ phase = "ready"
    /\ app = "modular"
    /\ deletedTrip # NoTrip
    /\ Len(trips) < MaxTrips
    /\ Refreshed(Append(trips, deletedTrip))
    /\ deletedTrip' = NoTrip
    /\ UNCHANGED <<issued, phase>>
    /\ UNCHANGED sessionVars
    /\ UNCHANGED vars

\* handleClearAll(), confirmed: clearAppState() removes the stored state
\* and empties the list
ClearAllUI ==
    /\ phase = "ready"
    /\ app = "modular"
    /\ Len(trips) > 0
    /\ trips' = <<>>
    /\ storage' = NoStorage
    /\ cards' = <<>>
    /\ renderFailed' = FALSE
    /\ form' = [form EXCEPT !.saved = FALSE]
    /\ UNCHANGED <<lastState, lastOperation, tripsBefore, bestValueTripId, issued,
                   deletedTrip, phase, calcs, editingTripId, undoResult>>
    /\ UNCHANGED vars

\* loadTripForEditing(trip), from the edit button of a trip of the list:
\* the form shows the trip and the UI state is in editing mode
EditTripUI(tripId) ==
    /\ phase = "ready"
    /\ app = "modular"
    /\ ~findIndex(trips, tripId, 1).threw
    /\ findIndex(trips, tripId, 1).index > 0
    /\ editingTripId' = tripId
    /\ form' = [form EXCEPT !.shown = "typed"]
    /\ UNCHANGED <<tripVars, undoResult>>
    /\ UNCHANGED vars

\* handleFormSubmit of the modular application on valid form data:
\* updateTrip of the selected trip, which ends the editing mode only if
\* the trip was found, or addTrip; then clearForm() and refreshTripList().
\* An exception of updateTrip is caught and nothing else is done
HandleFormSubmitUI(key) ==
    /\ app = "modular"
    /\ phase = "ready"
    /\ IF editingTripId = NotEditing
       THEN /\ \E id \in Ids : AddTripUI(key, id)
            /\ UNCHANGED editingTripId
            /\ form' = [form EXCEPT !.shown = "", !.saved = FALSE]
       ELSE IF findIndex(trips, editingTripId, 1).threw
       THEN UNCHANGED <<tripVars, vars, editingTripId, form>>
       ELSE IF findIndex(trips, editingTripId, 1).index > 0
       THEN /\ UpdateTripUI(editingTripId, key)
            /\ editingTripId' = NotEditing
            /\ form' = [form EXCEPT !.shown = "", !.saved = FALSE]
       ELSE /\ trips' = AfterRefresh(trips)
            /\ cards' = refreshTripList(trips).cards
            /\ renderFailed' = refreshTripList(trips).threw
            /\ form' = [form EXCEPT !.shown = "", !.saved = FALSE]
            /\ UNCHANGED <<lastState, lastOperation, tripsBefore, bestValueTripId, storage,
                           issued, deletedTrip, phase, calcs, editingTripId>>
            /\ UNCHANGED vars
    /\ UNCHANGED undoResult

\* saveFormData(), two seconds after the user has typed into the form:
\* updateCurrentForm(getFormData())
SaveFormData ==
    /\ phase = "ready"
    /\ app = "modular"
    /\ form' = [shown |-> "typed", current |-> "typed", saved |-> TRUE]
    /\ UNCHANGED <<tripVars, editingTripId, undoResult>>
    /\ UNCHANGED vars

\* the page is closed and opened again: the script starts on a fresh
\* appState and an empty form, and localStorage is what it was
Restart ==
    /\ phase = "ready"
    /\ app = "modular"
    /\ phase' = "boot"
    /\ trips' = <<>>
    /\ cards' = <<>>
    /\ renderFailed' = FALSE
    /\ deletedTrip' = NoTrip
    /\ editingTripId' = NotEditing
    /\ form' = [shown |-> "", current |-> "", saved |-> form.saved]
    /\ UNCHANGED <<lastState, lastOperation, tripsBefore, bestValueTripId, storage, issued,
                   calcs, undoResult>>
    /\ UNCHANGED vars

NextTrips ==
    \/ InitScript
    \/ InitMono
    \/ InitModular
    \/ \E key \in TripKeys : HandleFormSubmitScript(key)
    \/ \E key \in TripKeys : HandleFormSubmitMono(key)
    \/ \E tripId \in Ids : EditTrip(tripId)
    \/ \E tripId \in Ids : DeleteTrip(tripId)
    \/ Undo
    \/ UndoNothing
    \/ ClearAll
    \/ \E key \in TripKeys : HandleFormSubmitUI(key)
    \/ \E tripId \in Ids : EditTripUI(tripId)
    \/ \E tripId \in Ids : DeleteTripUI(tripId)
    \/ UndoUI
    \/ ClearAllUI
    \/ SaveFormData
    \/ Restart

allVars == <<vars, listVars>>

SpecTrips == InitTrips /\ [][NextTrips]_allVars

(***************************************************************************)
(* Claims about the trip list                                              *)
(***************************************************************************)
\* the list holds trip objects only, each with the form's fields
TripObjects(list) == \A i \in 1..Len(list) : HasName(list[i])

\* the application has drawn a list of trips
Drawn ==
    /\ phase = "ready"
    /\ app \in NumericApps
    /\ Len(trips) > 0
    /\ TripObjects(trips)

\* the index of the first trip whose perDayValue no trip of the list exceeds
FirstMaximum(a, list) ==
    CHOOSE i \in 1..Len(list) :
        /\ \A j \in 1..Len(list) :
               ~Gt(perDayValue(a, list[j]), perDayValue(a, list[i]))
        /\ \A j \in 1..(i - 1) :
               Gt(perDayValue(a, list[i]), perDayValue(a, list[j]))

\* C13: after renderTrips has drawn a list of trips, the designated best
\* trip is the first trip of the list, in list order, whose perDayValue is
\* the maximum of the list; a later trip with the same perDayValue does not
\* replace it.
C13_FirstMaximumIsBest ==
    Drawn => bestValueTripId = trips[FirstMaximum(app, trips)].id

\* two trips with different ids tie for the maximum and the first is
\* designated
C13_Witness ==
    /\ Drawn
    /\ Len(trips) = 2
    /\ trips[1].key = trips[2].key
    /\ trips[1].id # trips[2].id
    /\ bestValueTripId = trips[1].id

\* the element is a trip that carries an id
HasId(e) == e.k = "obj" /\ e.id # NoId

\* C20: at every moment no two trips of the list carry the same id (an id
\* given by addTrip differs from every id in the list, so the list never
\* holds a duplicate).
C20_IdsAreUnique ==
    \A i, j \in 1..Len(trips) :
        (i # j /\ HasId(trips[i]) /\ HasId(trips[j]))
            => trips[i].id # trips[j].id

\* every trip of the drawn list has its card, in list order
AllCardsShown ==
    /\ Drawn
    /\ ~renderFailed
    /\ Len(cards) = Len(trips)

\* C14: whatever operations led to the drawn list, no card shows the
\* best-value badge when the list has fewer than two trips, and a card
\* shows the badge only if its trip is the designated best-value trip, the
\* first trip with the maximum perDayValue.
C14_BadgeOnlyOnBestTrip ==
    AllCardsShown =>
        \A i \in 1..Len(cards) :
            cards[i].badge =>
                /\ Len(trips) >= 2
                /\ i = FirstMaximum(app, trips)

\* a well-formed element of a stored list: a trip object with its id and
\* the form's fields
WellFormed(e) == HasId(e) /\ HasName(e)

WellFormedOf(list) == SelectSeq(list, LAMBDA e : WellFormed(e))

\* exactly one element of the list is malformed
OneMalformed(list) == Len(WellFormedOf(list)) + 1 = Len(list)

\* the application starts on a stored list with one malformed element
LoadsOneMalformed ==
    /\ phase = "boot"
    /\ phase' = "ready"
    /\ app \in NumericApps
    /\ storage.k # "none"
    /\ OneMalformed(storage.trips)

\* C15: when the application loads a stored list with one malformed
\* element, renderTrips completes: the best-value trip is the first maximum
\* of the well-formed trips and every well-formed trip has its card.
C15_MalformedElementDoesNotStopRender ==
    [][LoadsOneMalformed =>
          /\ ~renderFailed'
          /\ bestValueTripId' =
                 WellFormedOf(storage.trips)[
                     FirstMaximum(app, WellFormedOf(storage.trips))].id
          /\ \A i \in 1..Len(WellFormedOf(storage.trips)) :
                 \E j \in 1..Len(cards') :
                     cards'[j].id = WellFormedOf(storage.trips)[i].id]_allVars

\* the step is updateTrip(tripId, data) on a trip that is in the list, with
\* the form's data named key
UpdatesTrip(tripId, key) ==
    /\ findIndex(trips, tripId, 1).index > 0
    /\ \/ UpdateTripScript(tripId, key)
       \/ UpdateTripMono(tripId, key)
       \/ UpdateTripUI(tripId, key)

\* the list after the step differs from the list before it only in the
\* data of the trip at index
OnlyDataReplacedAt(index, tripId, key) ==
    /\ Len(trips') = Len(trips)
    /\ trips'[index].key = key
    /\ trips'[index].id = tripId
    /\ trips'[index].color = trips[index].color
    /\ \A j \in 1..Len(trips) : j # index => trips'[j] = trips[j]

\* C19: updateTrip(tripId, data) on a trip of the list replaces the trip's
\* data and keeps its id, its color and its position; every other trip and
\* the length of the list are unchanged.
C19_UpdateKeepsIdColorPosition ==
    [][\A tripId \in Ids, key \in TripKeys :
           UpdatesTrip(tripId, key) =>
               OnlyDataReplacedAt(findIndex(trips, tripId, 1).index,
                                  tripId, key)]_allVars

\* an update has replaced the data of a trip that is not the first of the
\* list, under its id and color
C19_Witness ==
    /\ phase = "ready"
    /\ lastOperation = "update"
    /\ Len(lastState.trips) = Len(trips)
    /\ \E i \in 2..Len(trips) :
           /\ HasId(trips[i])
           /\ lastState.trips[i].key # trips[i].key
           /\ lastState.trips[i].id = trips[i].id
           /\ lastState.trips[i].color = trips[i].color

(***************************************************************************)
(* Hour and minute pairs                                                   *)
(***************************************************************************)
\* the hours component of a pair: 0 when missing, unparseable or negative
HoursInRange(v) ==
    IF parseInt(v).nan \/ Gt(Zero, parseInt(v)) THEN Zero ELSE parseInt(v)

\* the minutes component of a pair: 0 when missing, unparseable, negative
\* or above 59
MinutesInRange(v) ==
    IF parseInt(v).nan \/ Gt(Zero, parseInt(v)) \/ Gt(parseInt(v), Int2Num(59))
    THEN Zero ELSE parseInt(v)

\* hours + minutes/60 over the components in range
HoursOfPair(hours, minutes) ==
    Add(HoursInRange(hours), Div(MinutesInRange(minutes), Int2Num(60)))

\* C21: the credited hours calculateTripPay pays are hours + minutes/60 of
\* the record's pair, where a component that is missing, unparseable or out
\* of range (negative, minutes above 59) counts as 0: basePay is that number
\* of hours at the effective rate.
C21_OutOfRangeComponentIsZero ==
    ReturnedFor(NumericApps) =>
        out.pay.basePay =
            Mul(HoursOfPair(arg.f.creditedHoursHours, arg.f.creditedHoursMinutes),
                out.pay.effectiveRate)

(***************************************************************************)
(* Determinism of the calculator                                           *)
(***************************************************************************)
\* elements i of list and j of other are trip objects with the same data
SameRecord(list, i, other, j) ==
    /\ list[i].k = "obj"
    /\ other[j].k = "obj"
    /\ list[i].key = other[j].key

\* the calculations shown after a step agree with those shown before it,
\* and with one another, on trips that hold the same record
AgreeOnSameRecord ==
    /\ \A i \in 1..Len(calcs), j \in 1..Len(calcs') :
           SameRecord(trips, i, trips', j) => calcs'[j] = calcs[i]
    /\ \A i, j \in 1..Len(calcs') :
           SameRecord(trips', i, trips', j) => calcs'[j] = calcs'[i]

C23_SortingTheCopyKeepsTheList ==
    [][(app = "modular" /\ phase' = "ready" /\ storage'.k # "none")
          => trips' = storage'.trips]_allVars

\* the display was sorted, newest first, into another order than that of
\* appState.trips, which is the order stored
C23_Witness ==
    /\ app = "modular"
    /\ phase = "ready"
    /\ storage.k # "none"
    /\ trips = storage.trips
    /\ Len(trips) = 2
    /\ Len(cards) = 2
    /\ trips[1].id # trips[2].id
    /\ cards[1].id = trips[2].id
    /\ cards[2].id = trips[1].id

(***************************************************************************)
(* The form in progress across a restart                                   *)
(***************************************************************************)
\* C24: what saveFormData saved is found and restored by a later startup:
\* when the modular application starts (loadAppState and loadSavedData on
\* a fresh appState) after saveFormData ran on a form in progress that
\* was neither submitted nor cleared since, the form shows the saved data.
C24_SavedFormIsRestored ==
    [][(app = "modular" /\ phase = "boot" /\ phase' = "ready" /\ form.saved)
          => form'.shown = "typed"]_allVars

(***************************************************************************)
(* What an undo restores                                                   *)
(***************************************************************************)
\* C25: a successful undo of script.js or of the monolith sets state.trips
\* to exactly the list as it was before the most recent of the add, update,
\* delete and clear-all operations.
C25_UndoRestoresListBeforeLastOperation ==
    [][Undo => trips' = tripsBefore.trips]_allVars

(***************************************************************************)
(* Undo is single-level                                                    *)
(***************************************************************************)
\* the test undoLastOperation makes before it restores anything
NothingToUndo == lastState = NoState \/ lastOperation = "null"

\* a successful undo empties the history, and a call that finds the history
\* empty returns false and changes neither the list nor the history
UndoIsSpent ==
    /\ (Undo /\ undoResult' = "true") => NothingToUndo'
    /\ (phase = "ready" /\ app \in NumericApps /\ NothingToUndo
            /\ undoResult' # undoResult)
           => /\ undoResult' = "false"
              /\ UNCHANGED <<trips, lastState, lastOperation>>

\* C26: undo is single-level.  A successful undo of script.js or of the
\* monolith leaves nothing to undo, and a call of undoLastOperation made
\* while there is nothing to undo returns false and leaves state.trips and
\* the history as they are.
C26_SecondUndoDoesNothing ==
    [][UndoIsSpent]_allVars

\* an undo was called for after a successful undo of an operation on a trip
\* of this session, and returned false
C26_Witness ==
    /\ phase = "ready"
    /\ app \in NumericApps
    /\ issued # {}
    /\ tripsBefore # NoState
    /\ NothingToUndo
    /\ undoResult = "false"
    /\ trips = tripsBefore.trips

(***************************************************************************)
(* A valid submission is never lost                                        *)
(***************************************************************************)
\* the list holds a trip object that carries the submitted data
Carries(list, key) ==
    \E i \in 1..Len(list) : list[i].k = "obj" /\ list[i].key = key

\* every submission handled by script.js or by the monolith leaves a trip
\* with the submitted data in the list
SubmissionIsKept ==
    \A key \in TripKeys :
        (HandleFormSubmitScript(key) \/ HandleFormSubmitMono(key))
            => Carries(trips', key)

\* C27: whatever editing, deleting, undoing and submitting came before, a
\* submission of valid form data to script.js or to the monolith leaves a
\* trip in state.trips that carries the submitted data.
C27_SubmittedDataIsInTheList ==
    [][SubmissionIsKept]_allVars

(***************************************************************************)
(* The editing mode after a submission                                     *)
(***************************************************************************)
\* handleFormSubmit of the modular application runs to its end: no lookup
\* of the selected trip throws
SubmitCompletes ==
    /\ \E key \in TripKeys : HandleFormSubmitUI(key)
    /\ editingTripId # NotEditing => ~findIndex(trips, editingTripId, 1).threw

\* C28: when handleFormSubmit of the modular application has completed for
\* valid form data, the UI is no longer in editing mode: isEditing is
\* false and no trip is selected.
C28_SubmitEndsEditing ==
    [][SubmitCompletes => editingTripId' = NotEditing]_allVars

(***************************************************************************)
(* The stored list follows the list in memory                              *)
(***************************************************************************)
\* localStorage holds a saved object whose trips are state.trips
StoredIsCurrent == storage.k = "object" /\ storage.trips = trips

\* an add or update (by a form submission), a delete, an undo or a
\* clear-all of script.js or of the monolith
ListOperation ==
    \/ \E key \in TripKeys : HandleFormSubmitScript(key)
    \/ \E key \in TripKeys : HandleFormSubmitMono(key)
    \/ \E tripId \in Ids : DeleteTrip(tripId)
    \/ Undo
    \/ ClearAll

\* C29: after each add, update, delete, undo and clear-all of script.js
\* and of the monolith whose rendering did not fail, the list stored in
\* localStorage equals state.trips.
C29_StoredListEqualsTrips ==
    [][(ListOperation /\ ~renderFailed') => StoredIsCurrent']_allVars

(***************************************************************************)
(* What a load leaves in state.trips                                       *)
(***************************************************************************)
\* an object with a non-empty id and a non-empty name
HasIdAndName(e) == e.k = "obj" /\ e.id # NoId /\ HasName(e)

\* C30: after loadTripsFromLocalStorage of script.js and of the monolith,
\* state.trips is an array in which every element is an object with a
\* non-empty id and a non-empty name.
C30_LoadedTripsHaveIdAndName ==
    [][(InitScript \/ InitMono)
          => \A i \in 1..Len(trips') : HasIdAndName(trips'[i])]_allVars

====
